---- MODULE Spec2Model ----
(***************************************************************************)
(* A model of the FERC Form 1 "explosion" code of pudl:                    *)
(*   - XbrlCalculationForestFerc1 (src/src/pudl/output/ferc1.py): the      *)
(*     calculation digraph, its seeding, passthrough pruning and the leaf  *)
(*     metadata derived from it;                                           *)
(*   - MetadataExploder.boom and the demotion of the calculations with     *)
(*     components outside the explosion;                                   *)
(*   - Exploder.boom: generate_intertable_calculations,                    *)
(*     reconcile_intertable_calculations and leafy_data;                   *)
(*   - StringCategories and categorize_strings                             *)
(*     (src/src/pudl/transform/ferc1.py);                                  *)
(*   - LayeredCache (pudl.workspace.resource_cache), as described by       *)
(*     src/test/unit/workspace/resource_cache_test.py.                     *)
(*                                                                         *)
(* Conventions.  A NodeId is a record [source_table, xbrl_factoid].  An    *)
(* xbrl_factoid string is a sequence of tokens, so that                    *)
(* factoid + "_correction" is Append(factoid, "_correction") and           *)
(* str.endswith("_correction") looks at the last token.  A property access *)
(* that raises is recorded with status "raised".                           *)
(***************************************************************************)
EXTENDS Integers, Sequences, FiniteSets, TLC

VARIABLES
    index,      \* exploded_meta.index: the NodeIds that have a metadata row
    calcs,      \* the calculations column: records [from, to, weight]
    seeds_arg,  \* the seeds the constructor was given
    seeds,      \* the seeds field (after the validators ran)
    phase,      \* "build" | "ready" | "invalid" (a validator raised ValueError)
    out,        \* what the last property access returned
    metadata_exploded,  \* Exploder.metadata_exploded: one record per row
    tables,     \* tables_to_explode, as the set of their rows
    stage,      \* how far Exploder.boom has come
    exploded,   \* the dataframe initial_explosion_concatenation returned
    calculated_df,      \* what generate_intertable_calculations returned
    reconciled, \* what reconcile_intertable_calculations returned
    returned,   \* what boom returned: the dataframe leafy_data made
    tolerance,  \* calculation_tolerance, in percent
    raised,     \* the exception that ended boom, or "none"
    categories, \* the categories a StringCategories is constructed with
    instance,   \* StringCategories.categories once the validators have run
    cat_phase,  \* "input" | "valid" | "invalid" (a validator raised)
    col_input,  \* the column categorize_strings was first called with
    col,        \* the column categorize_strings returned last
    n_applied,  \* how many times categorize_strings has been applied
    layers,     \* LayeredCache: its layers, leftmost first
    lc_read_only,       \* whether the LayeredCache itself is read-only
    lc_last,    \* the last call on the cache, the layers before it, its result
    multi_calcs,        \* calculation components that list several source tables
    tags,       \* the tags dataframe: a dict of tags for each node it indexes
    accessed,   \* how often each property of the forest has been read
    computed,   \* how often the body of each property has been run
    meta_explode,       \* the metadata MetadataExploder.boom concatenates
    boomed      \* what MetadataExploder.boom returned, and its side channel

fvars == <<index, calcs, seeds_arg, seeds, phase, out>>

rvars == <<metadata_exploded, tables, stage, exploded, calculated_df,
           reconciled, returned, tolerance, raised>>

cvars == <<categories, instance, cat_phase, col_input, col, n_applied>>

lvars == <<layers, lc_read_only, lc_last>>

xvars == <<multi_calcs, tags, accessed, computed, meta_explode, boomed>>

ovars == <<cvars, lvars, xvars>>

vars == <<fvars, rvars, ovars>>

----------------------------------------------------------------------------
(* NodeId and the universe of metadata the model draws from                *)

NodeId(t, f) == [source_table |-> t, xbrl_factoid |-> f]

CORR == "_correction"

A  == NodeId("t1", <<"a">>)
B  == NodeId("t1", <<"b">>)
C  == NodeId("t1", <<"c">>)
Bc == NodeId("t1", <<"b", CORR>>)
Xc == NodeId("t2", <<"b", CORR>>)
Cc == NodeId("t1", <<"c", CORR>>)

Nodes == {A, B, C, Bc, Xc}

\* The factoids of the tables an Exploder is given.
TOTAL == <<"total">>
X     == <<"x">>
Y     == <<"y">>

\* The order in which the rows of the input dataframe are iterated.
NodeOrder ==
    <<A, B, C, Bc, Xc, Cc,
      NodeId("t1", TOTAL), NodeId("t1", Append(TOTAL, CORR)),
      NodeId("t2", X), NodeId("t2", Y), NodeId("t3", Y)>>

Calc(f, t, w) == [from |-> f, to |-> t, weight |-> w]

\* Candidate calculation components: a chain A -> B -> C with B's correction
\* record, a second parent for C, a cycle C -> A, and a correction record
\* that lives in another table.  Weights are +1 or -1.
CalcUniverse ==
    { Calc(A, B, 1), Calc(A, B, -1),
      Calc(B, C, 1), Calc(B, C, -1),
      Calc(A, C, 1), Calc(A, C, -1),
      Calc(B, Bc, 1), Calc(B, Xc, 1), Calc(C, A, 1) }

\* The metadata the passthroughs and the weight conflicts are studied on:
\* the chain A -> B -> C with the correction record of B or of C as the
\* other component of B, and the two ways into C with weights 1, -1, 2, -2.
WeightNodes == {A, B, C, Bc, Cc}

WeightCalcs ==
    { Calc(A, B, 1), Calc(B, Bc, 1), Calc(B, Cc, 1),
      Calc(B, C, 1), Calc(B, C, -1), Calc(B, C, 2), Calc(B, C, -2),
      Calc(A, C, 1), Calc(A, C, -1), Calc(A, C, 2), Calc(A, C, -2) }

WeightSeeds == { {}, {A} }

\* A calculation component of the row `f` whose source_tables lists the
\* tables `tbls`.  The components that list one table are the records of
\* `calcs`; multi_calcs holds those that list several.
MultiCalc(f, name, tbls, w) ==
    [from |-> f, name |-> name, source_tables |-> tbls, weight |-> w]

MultiCalcs ==
    { MultiCalc(A, <<"c">>, {"t1", "t2"}, 1),
      MultiCalc(B, <<"b", CORR>>, {"t1", "t2"}, 1) }

SourceNodes == {A, B, C}

SourceCalcs == { Calc(A, B, 1), Calc(B, C, 1), Calc(A, C, -1) }

\* The most calculation components the metadata may hold.
MaxCalcs == 3

\* Seed lists the constructor may be given (as sets; [] is {}).
SeedInputs == { {}, {A}, {B}, {C}, {B, C} }

----------------------------------------------------------------------------
(* Graph helpers (networkx.DiGraph)                                        *)

\* A node without a "weight" attribute.  The code reads the attribute with
\* .get("weight", False), which does not tell a missing weight from 0.0.
NoWeight == 0

Graph(ns, es, wt) == [nodes |-> ns, edges |-> es, weight |-> wt]

EmptyGraph == Graph({}, {}, [n \in {} |-> NoWeight])

Successors(G, n) == { e[2] : e \in { d \in G.edges : d[1] = n } }

Predecessors(G, n) == { e[1] : e \in { d \in G.edges : d[2] = n } }

InDegree(G, n) == Cardinality(Predecessors(G, n))

OutDegree(G, n) == Cardinality(Successors(G, n))

RECURSIVE Closure(_, _)
\* The nodes reachable from the set S by zero or more edges of E.
Closure(E, S) ==
    LET next == S \cup { e[2] : e \in { d \in E : d[1] \in S } }
    IN  IF next = S THEN S ELSE Closure(E, next)

\* nx.descendants(G, n): reachable by one or more edges, n itself excluded.
Descendants(G, n) == Closure(G.edges, {n}) \ {n}

Reverse(E) == { <<e[2], e[1]>> : e \in E }

\* nx.ancestors(G, n)
Ancestors(G, n) == Closure(Reverse(G.edges), {n}) \ {n}

\* n lies on a directed cycle of G.
OnCycle(G, n) == n \in Closure(G.edges, Successors(G, n))

\* nx.is_directed_acyclic_graph
IsDag(G) == \A n \in G.nodes : ~OnCycle(G, n)

\* The weakly connected component of n.
WeakComponent(G, n) == Closure(G.edges \cup Reverse(G.edges), {n})

\* nx.is_forest on a non-empty DiGraph: every weakly connected component has
\* one edge less than it has nodes.
IsForestNx(G) ==
    \A n \in G.nodes :
        LET c == WeakComponent(G, n)
        IN  Cardinality(c) - 1 =
                Cardinality({ e \in G.edges : e[1] \in c /\ e[2] \in c })

Roots(G) == { n \in G.nodes : InDegree(G, n) = 0 }

Leaves(G) == { n \in G.nodes : OutDegree(G, n) = 0 }

RECURSIVE Perms(_)
\* Every order in which the elements of S can be listed.
Perms(S) ==
    IF S = {} THEN { <<>> }
    ELSE UNION { { <<x>> \o p : p \in Perms(S \ {x}) } : x \in S }

Range(s) == { s[i] : i \in 1..Len(s) }

SelectInOrder(order, S) == SelectSeq(order, LAMBDA n : n \in S)

----------------------------------------------------------------------------
(* XbrlCalculationForestFerc1: graph construction                          *)

\* The hard-coded nodes exploded_meta_to_digraph removes after construction.
BadNodes ==
    { NodeId("balance_sheet_assets_ferc1", <<"special_funds_all">>),
      NodeId("balance_sheet_assets_ferc1", <<"nuclear_fuel">>) }

\* A property access: what it returned, or that it raised.
Res(st, G, lg) == [status |-> st, graph |-> G, log |-> lg]

Raised == Res("raised", EmptyGraph, {})

\* The calculation components of the rows listed in `rows`.
CalcsOf(rows) == { c \in calcs : c.from \in Range(rows) }

\* The weight attrs[to_node]["weight"] ends with: the one seen first, going
\* through the rows in order (a later, different weight is only compared
\* with it and never stored).
FirstWeight(rows, n) ==
    LET first == CHOOSE i \in 1..Len(rows) :
                    /\ \E c \in calcs : c.from = rows[i] /\ c.to = n
                    /\ \A j \in 1..(i - 1) :
                          ~\E c \in calcs : c.from = rows[j] /\ c.to = n
    IN  (CHOOSE c \in calcs : c.from = rows[first] /\ c.to = n).weight

\* The assert as if it asked for the negative of the stored weight.
WeightsAssertNegatives(rows) ==
    \A c \in CalcsOf(rows) :
        LET w == FirstWeight(rows, c.to)
        IN  w # c.weight => w = -c.weight

\* assert attrs[to_node]["weight"] * calc["weight"] == -1.0, evaluated for
\* every component whose weight differs from the stored one.
WeightsAssertOk(rows) ==
    \A c \in CalcsOf(rows) :
        LET w == FirstWeight(rows, c.to)
        IN  w # c.weight => w * c.weight = -1

\* The components taken whatever the number of tables they list.
SourceTablesUnchecked(rows) == TRUE

\* assert len(calc["source_tables"]) == 1, for every component of the rows.
SourceTablesAssertOk(rows) ==
    \A m \in multi_calcs :
        m.from \in Range(rows) => Cardinality(m.source_tables) = 1

\* exploded_meta_to_digraph on the rows `rows` (a sequence of NodeIds, in the
\* order the dataframe lists them).  Nodes exist only as end points of edges.
ExplodedMetaToDigraph(rows) ==
    LET cs    == CalcsOf(rows)
        edges == { <<c.from, c.to>> : c \in cs }
        nodes == { e[1] : e \in edges } \cup { e[2] : e \in edges }
        keep  == nodes \ BadNodes
        wt    == [ n \in keep |->
                     IF \E c \in cs : c.to = n
                     THEN FirstWeight(rows, n) ELSE NoWeight ]
    IN  IF ~SourceTablesAssertOk(rows) THEN Raised
        ELSE IF ~WeightsAssertOk(rows) THEN Raised
        ELSE Res("ok",
                 Graph(keep,
                       { e \in edges : e[1] \in keep /\ e[2] \in keep },
                       wt),
                 {})

\* A cycle taken as an error that ends the access.
CycleRaises(r) ==
    IF IsDag(r.graph) THEN Res("ok", r.graph, {}) ELSE Raised

\* The end of full_digraph: a graph that is no DAG is logged as critical and
\* returned.
CycleLogged(r) ==
    Res("ok", r.graph, IF IsDag(r.graph) THEN {} ELSE {"critical"})

\* The full_digraph property.
FullDigraph ==
    LET r == ExplodedMetaToDigraph(SelectInOrder(NodeOrder, index))
    IN  IF r.status = "raised" THEN r ELSE CycleLogged(r)

\* seeded_nodes of the seeded_digraph property.
SeededNodes(full) == seeds \cup UNION { Descendants(full, s) : s \in seeds }

\* The seeded_digraph property: the values an access can return.  The rows
\* are taken in the iteration order of a Python set, which is any order.
\* nx.descendants raises for a seed that is no node of the full digraph, and
\* exploded_meta.loc raises for a seeded node that has no metadata row.
SeededDigraphResults ==
    LET full == FullDigraph
    IN  IF full.status = "raised" THEN {Raised}
        ELSE IF \E s \in seeds : s \notin full.graph.nodes THEN {Raised}
        ELSE LET sn == SeededNodes(full.graph)
             IN  IF ~(sn \subseteq index) THEN {Raised}
                 ELSE { ExplodedMetaToDigraph(p) : p \in Perms(sn) }

\* The nodes with one parent and two children, whatever the children are.
PassthroughsOfAnyChildren(G) ==
    { n \in G.nodes : InDegree(G, n) = 1 /\ OutDegree(G, n) = 2 }

\* The passthroughs property, on a seeded digraph G.
Passthroughs(G) ==
    LET has_one_parent     == { n \in G.nodes : InDegree(G, n) = 1 }
        may_have_one_child == { n \in G.nodes : OutDegree(G, n) = 2 }
        has_one_child ==
            { n \in may_have_one_child :
                \E child \in Successors(G, n) :
                    /\ n.source_table = child.source_table
                    /\ child.xbrl_factoid = Append(n.xbrl_factoid, CORR) }
    IN  has_one_parent \cap has_one_child

EndsWithCorrection(n) ==
    /\ Len(n.xbrl_factoid) > 0
    /\ n.xbrl_factoid[Len(n.xbrl_factoid)] = CORR

\* The iterator read as if it had not been consumed.
FreshIterator(S) == S

\* What is left of the iterator forest.successors(node) once
\* len(list(successors)) has consumed it: nothing.
ConsumedIterator(S) == {}

\* remove_nodes_from(ns)
RemoveNodes(G, ns) ==
    Graph(G.nodes \ ns,
          { e \in G.edges : e[1] \notin ns /\ e[2] \notin ns },
          [ n \in G.nodes \ ns |-> G.weight[n] ])

\* add_edge(u, v): missing end points are created without attributes.
AddEdge(G, u, v) ==
    Graph(G.nodes \cup {u, v},
          G.edges \cup {<<u, v>>},
          [ n \in G.nodes \cup {u, v} |->
              IF n \in G.nodes THEN G.weight[n] ELSE NoWeight ])

\* One iteration of the loop of `forest` over a passthrough node.  r is the
\* result so far; a failed assert (or a node that left the graph) raises.
PruneStep(r, node) ==
    IF r.status = "raised" THEN r
    ELSE IF node \notin r.graph.nodes THEN Raised
    ELSE LET G          == r.graph
             parent     == Predecessors(G, node)
             successors == Successors(G, node)
             child      == { n \in successors : ~EndsWithCorrection(n) }
         IN  IF Cardinality(parent) # 1 THEN Raised
             ELSE IF Cardinality(successors) # 2 THEN Raised
             ELSE IF Cardinality(child) # 1 THEN Raised
             ELSE Res("ok",
                      AddEdge(RemoveNodes(G, ConsumedIterator(successors)),
                              CHOOSE p \in parent : TRUE,
                              CHOOSE c \in child : TRUE),
                      r.log)

RECURSIVE PruneAll(_, _)
PruneAll(r, order) ==
    IF order = <<>> THEN r
    ELSE PruneAll(PruneStep(r, Head(order)), Tail(order))

\* The end of `forest`: nx.is_forest raises on a graph without nodes, and a
\* graph that is not a forest is logged as an error and returned.
CheckForest(r) ==
    IF r.status = "raised" THEN r
    ELSE IF r.graph.nodes = {} THEN Raised
    ELSE Res("ok", r.graph,
             IF IsForestNx(r.graph) THEN r.log ELSE r.log \cup {"error"})

\* The forest property: the values an access can return.  The passthroughs
\* come from a list built from a set, so they are visited in any order.
ForestResults ==
    UNION { { CheckForest(PruneAll(s, order)) :
                order \in Perms(IF s.status = "ok"
                                THEN Passthroughs(s.graph) ELSE {}) } :
            s \in SeededDigraphResults }

----------------------------------------------------------------------------
(* XbrlCalculationForestFerc1.leafy_meta                                   *)

\* Every weight read as 1.
WeightIgnored(G, n) == 1

\* pruned_forest.nodes[node].get("weight", 1.0)
WeightOr1(G, n) == IF G.weight[n] = NoWeight THEN 1 ELSE G.weight[n]

RECURSIVE Product(_, _)
\* The product of the weights of the nodes of S.
Product(G, S) ==
    IF S = {} THEN 1
    ELSE LET n == CHOOSE x \in S : TRUE
         IN  WeightOr1(G, n) * Product(G, S \ {n})

\* The weight of the leaf alone, its ancestors left out.
LeafWeightOwn(G, leaf) == WeightOr1(G, leaf)

\* The weight propagated to a leaf: its own weight times the weight of each
\* of nx.ancestors(pruned_forest, leaf).
LeafWeight(G, leaf) == WeightOr1(G, leaf) * Product(G, Ancestors(G, leaf))

\* assert node in roots, for an ancestor that carries no weight.
AncestorsAssertOk(G, leaf) ==
    \A n \in Ancestors(G, leaf) : G.weight[n] = NoWeight => n \in Roots(G)

\* Every root of the forest, whether or not the leaf descends from it.
AllRoots(G, leaf) == Roots(G)

\* The roots a leaf descends from.
RootsOf(G, leaf) == { root \in Roots(G) : leaf \in Descendants(G, root) }

\* The leaves leaf_to_root_map has a key for.
MappedLeaves(G) == { leaf \in Leaves(G) : RootsOf(G, leaf) # {} }

\* A dict without keys.
EmptyDict == <<>>

\* The columns of the tags dataframe and the values a tag takes.
TagColumns == {"rate_base"}

TagValues == {"yes", "no"}

\* attrs[node]["tags"]: dict(tags.loc[node]), one key for each column of the
\* tags dataframe, and {} for a node the dataframe does not index.
NodeTags(n) == IF n \in DOMAIN tags THEN tags[n] ELSE EmptyDict

\* d |= e: the keys of both, the value of e where both have the key.
DictUpdate(d, e) == e @@ d

RECURSIVE TagsInOrder(_, _)
\* leaf_tags after the loop has visited the nodes of `order`, one by one.
TagsInOrder(leaf_tags, order) ==
    IF order = <<>> THEN leaf_tags
    ELSE TagsInOrder(DictUpdate(leaf_tags, NodeTags(Head(order))), Tail(order))

\* The ancestors of the leaf and the leaf itself.
AncestorsAndSelf(G, leaf) == Ancestors(G, leaf) \cup {leaf}

\* The nodes whose tags a leaf receives: nx.ancestors(pruned_forest, leaf).
TaggingNodes(G, leaf) == Ancestors(G, leaf)

\* The tags a leaf can end with: nx.ancestors returns a set, visited in any
\* order.
LeafTags(G, leaf) ==
    { TagsInOrder(EmptyDict, order) : order \in Perms(TaggingNodes(G, leaf)) }

LeafRow(leaf, root, w, t) ==
    [leaf |-> leaf, root |-> root, weight |-> w, tags |-> t]

\* leaf_to_root_map keeps, for a leaf under several roots, the root listed
\* last among the graph's nodes: any one of them, as far as the caller knows.
LeafToRootMaps(G) ==
    { m \in [MappedLeaves(G) -> Roots(G)] :
        \A leaf \in MappedLeaves(G) : m[leaf] \in RootsOf(G, leaf) }

\* The dataframes leafy_meta can return on the forest G: one row per key of
\* leaf_to_root_map, merged with the row built for that leaf.
LeafyRows(G) ==
    UNION { { { LeafRow(leaf, m[leaf], LeafWeight(G, leaf), t[leaf])
                : leaf \in MappedLeaves(G) }
              : t \in { u \in [MappedLeaves(G) ->
                                  UNION { LeafTags(G, leaf)
                                          : leaf \in MappedLeaves(G) }] :
                          \A leaf \in MappedLeaves(G) :
                              u[leaf] \in LeafTags(G, leaf) } }
            : m \in LeafToRootMaps(G) }

\* leafy_meta raises when an ancestor without weight is no root, when there
\* is no leaf row to concatenate, and when no leaf has a root to merge on.
LeafyRaises(G) ==
    \/ \E leaf \in Leaves(G) : ~AncestorsAssertOk(G, leaf)
    \/ Leaves(G) = {}
    \/ MappedLeaves(G) = {}

----------------------------------------------------------------------------
(* XbrlCalculationForestFerc1.leafy_data                                   *)

\* A missing value (NaN, NA) of a dataframe, and a value that is there.
Null == <<>>

Some(v) == <<v>>

Val(x) == x[1]

\* A row of exploded_data, with its balance columns.
BalanceRow(n, y, sb, eb) ==
    [table_name |-> n.source_table, xbrl_factoid |-> n.xbrl_factoid,
     report_year |-> y, starting_balance |-> sb, ending_balance |-> eb]

\* The exploded_data leafy_data is called with: a row for every node, or
\* two years of one node, one of them without starting balance.
BalanceFrames ==
    { { BalanceRow(n, 1, Some(10), Some(20)) : n \in Nodes },
      { BalanceRow(C, 1, Some(10), Some(20)),
        BalanceRow(C, 2, Null, Some(20)),
        BalanceRow(A, 1, Some(7), Some(9)) } }

\* x * weight on a column that may hold NaN.
Times(x, w) == IF x = Null THEN Null ELSE Some(Val(x) * w)

\* The rows pd.merge(how="left") makes of one row of leafy_meta: one for
\* each row of the data with the leaf's table_name and xbrl_factoid, and a
\* row without data when there is none.
MergedWith(m, data) ==
    LET hits == { d \in data : /\ d.table_name = m.leaf.source_table
                               /\ d.xbrl_factoid = m.leaf.xbrl_factoid }
    IN  IF hits = {}
        THEN { [leaf |-> m.leaf, root |-> m.root, weight |-> m.weight,
                report_year |-> Null, starting_balance |-> Null,
                ending_balance |-> Null] }
        ELSE { [leaf |-> m.leaf, root |-> m.root, weight |-> m.weight,
                report_year |-> Some(d.report_year),
                starting_balance |-> d.starting_balance,
                ending_balance |-> d.ending_balance] : d \in hits }

\* .assign(starting_balance=..., ending_balance=...): the columns are
\* assigned in order, each lambda reading the frame as the ones before it
\* left it; ending_balance is computed from x.starting_balance.
AssignBalances(x) ==
    LET first == [x EXCEPT !.starting_balance =
                              Times(x.starting_balance, x.weight)]
    IN  [first EXCEPT !.ending_balance =
                          Times(first.starting_balance, first.weight)]

\* leafy_data(exploded_data), given the leafy_meta it reads.
LeafyData(meta, data) ==
    { AssignBalances(x) : x \in UNION { MergedWith(m, data) : m \in meta } }

----------------------------------------------------------------------------
(* The calculation forest as a state machine: the metadata is put together, *)
(* the object is constructed, and its properties are read.  No property    *)
(* caches its value: every access builds its graphs anew.                  *)

Out(prop, r, pts, rows) ==
    [prop |-> prop, status |-> r.status, graph |-> r.graph, log |-> r.log,
     passthroughs |-> pts, rows |-> rows]

NoOut == Out("none", Res("ok", EmptyGraph, {}), {}, {})

\* The forest side before anything is put into the metadata.
Init ==
    /\ index = {}
    /\ calcs = {}
    /\ seeds_arg = {}
    /\ seeds = {}
    /\ phase = "build"
    /\ out = NoOut
    /\ metadata_exploded = {}
    /\ tables = {}
    /\ stage = "tables"
    /\ exploded = [rows |-> {}, has_calculated_amount |-> FALSE]
    /\ calculated_df = [rows |-> {}, has_calculated_amount |-> FALSE]
    /\ reconciled = [rows |-> {}, has_calculated_amount |-> FALSE]
    /\ returned = [rows |-> {}, has_calculated_amount |-> FALSE]
    /\ tolerance = 5
    /\ raised = "none"
    /\ categories = <<>>
    /\ instance = <<>>
    /\ cat_phase = "input"
    /\ col_input = <<>>
    /\ col = <<>>
    /\ n_applied = 0
    /\ layers = <<>>
    /\ lc_read_only = FALSE
    /\ lc_last = [op |-> "none"]
    /\ multi_calcs = {}
    /\ tags = <<>>
    /\ accessed = [full_digraph |-> 0, seeded_digraph |-> 0, forest |-> 0,
                   leafy_meta |-> 0]
    /\ computed = [full_digraph |-> 0, seeded_digraph |-> 0, forest |-> 0,
                   leafy_meta |-> 0]
    /\ meta_explode = {}
    /\ boomed = [status |-> "none"]

\* A row of exploded_meta; the index is unique (dataframe_has_unique_index).
AddRow(n) ==
    /\ phase = "build"
    /\ n \notin index
    /\ index' = index \cup {n}
    /\ UNCHANGED <<calcs, seeds_arg, seeds, phase, out, rvars, ovars>>

\* A component in the calculations of the row c.from.
AddCalc(c) ==
    /\ phase = "build"
    /\ c.from \in index
    /\ Cardinality(calcs) < MaxCalcs
    /\ ~\E d \in calcs : d.from = c.from /\ d.to = c.to
    /\ calcs' = calcs \cup {c}
    /\ UNCHANGED <<index, seeds_arg, seeds, phase, out, rvars, ovars>>

\* A component that lists several source tables, in the calculations of the
\* row m.from.
AddMultiCalc(m) ==
    /\ phase = "build"
    /\ m.from \in index
    /\ m \notin multi_calcs
    /\ multi_calcs' = multi_calcs \cup {m}
    /\ UNCHANGED <<fvars, rvars, cvars, lvars, tags, accessed, computed,
                   meta_explode, boomed>>

\* A row of the tags dataframe; its index is unique
\* (dataframe_has_unique_index).
AddTag(n, d) ==
    /\ phase = "build"
    /\ n \notin DOMAIN tags
    /\ tags' = (n :> d) @@ tags
    /\ UNCHANGED <<fvars, rvars, cvars, lvars, multi_calcs, accessed,
                   computed, meta_explode, boomed>>

\* The seeds as given, an empty list left empty.
SeedsAsGiven(v) == v

\* seeds_not_empty
SeedsNotEmpty(v) == IF v = {} THEN index ELSE v

\* seeds_within_bounds: the seeds missing from the index (bad_seeds)
BadSeeds(v) == { seed \in v : seed \notin index }

\* XbrlCalculationForestFerc1(exploded_meta=..., seeds=v)
Construct(v) ==
    /\ phase = "build"
    /\ seeds_arg' = v
    /\ LET s == SeedsNotEmpty(v)
       IN  IF BadSeeds(s) # {}
           THEN /\ phase' = "invalid"
                /\ seeds' = {}
           ELSE /\ phase' = "ready"
                /\ seeds' = s
    /\ UNCHANGED <<index, calcs, out, rvars, ovars>>

ReadFullDigraph ==
    /\ phase = "ready"
    /\ out' = Out("full_digraph", FullDigraph, {}, {})
    /\ UNCHANGED <<index, calcs, seeds_arg, seeds, phase, rvars, ovars>>

ReadSeededDigraph ==
    /\ phase = "ready"
    /\ \E r \in SeededDigraphResults :
          out' = Out("seeded_digraph", r, {}, {})
    /\ UNCHANGED <<index, calcs, seeds_arg, seeds, phase, rvars, ovars>>

ReadPassthroughs ==
    /\ phase = "ready"
    /\ \E r \in SeededDigraphResults :
          out' = IF r.status = "raised"
                 THEN Out("passthroughs", Raised, {}, {})
                 ELSE Out("passthroughs", Res("ok", EmptyGraph, {}),
                          Passthroughs(r.graph), {})
    /\ UNCHANGED <<index, calcs, seeds_arg, seeds, phase, rvars, ovars>>

ReadForest ==
    /\ phase = "ready"
    /\ \E r \in ForestResults : out' = Out("forest", r, {}, {})
    /\ UNCHANGED <<index, calcs, seeds_arg, seeds, phase, rvars, ovars>>

\* leafy_meta; out.graph keeps the forest it was computed from.
ReadLeafyMeta ==
    /\ phase = "ready"
    /\ \E r \in ForestResults :
          IF r.status = "raised" \/ LeafyRaises(r.graph)
          THEN out' = Out("leafy_meta", Raised, {}, {})
          ELSE \E rows \in LeafyRows(r.graph) :
                  out' = Out("leafy_meta", r, {}, rows)
    /\ UNCHANGED <<index, calcs, seeds_arg, seeds, phase, rvars, ovars>>

\* leafy_data(exploded_data); out.meta keeps the leafy_meta it read and
\* out.data the dataframe it was given.
ReadLeafyData(data) ==
    /\ phase = "ready"
    /\ \E r \in ForestResults :
          IF r.status = "raised" \/ LeafyRaises(r.graph)
          THEN out' = Out("leafy_data", Raised, {}, {})
          ELSE \E meta \in LeafyRows(r.graph) :
                  out' = [prop |-> "leafy_data", status |-> "ok",
                          graph |-> r.graph, log |-> r.log,
                          passthroughs |-> {},
                          rows |-> LeafyData(meta, data),
                          meta |-> meta, data |-> data]
    /\ UNCHANGED <<index, calcs, seeds_arg, seeds, phase, rvars, ovars>>

Next ==
    \/ \E n \in Nodes : AddRow(n)
    \/ \E c \in CalcUniverse : AddCalc(c)
    \/ \E v \in SeedInputs : Construct(v)
    \/ ReadFullDigraph
    \/ ReadSeededDigraph
    \/ ReadPassthroughs
    \/ ReadForest
    \/ ReadLeafyMeta
    \/ \E data \in BalanceFrames : ReadLeafyData(data)

\* The counters of accesses and of runs stop at MaxCount.
MaxCount == 2

Sat(n) == IF n > MaxCount THEN MaxCount ELSE n

PropertyNames == {"full_digraph", "seeded_digraph", "forest", "leafy_meta"}

\* How often the body of each property runs during one access.
Runs(f, s, fo, l) ==
    [full_digraph |-> f, seeded_digraph |-> s, forest |-> fo, leafy_meta |-> l]

\* The counters if a property kept the result of its first run.
RunsWhenCached(before, runs) ==
    [p \in PropertyNames |->
        IF before[p] > 0 \/ runs[p] = 0 THEN before[p] ELSE 1]

\* The counters after an access: the properties are plain @property
\* methods, so every read of self.<property> runs its body.
RunsAdded(before, runs) ==
    [p \in PropertyNames |-> Sat(before[p] + runs[p])]

\* The runs of one access of seeded_digraph that returned r: its own body,
\* and the body of full_digraph once for each seed of the loop (for those
\* seeds the loop came to, when it raised).
SeededRuns(r) ==
    IF r.status = "ok" THEN { Runs(Cardinality(seeds), 1, 0, 0) }
    ELSE { Runs(k, 1, 0, 0) : k \in 1..Cardinality(seeds) }

\* The runs of one access of forest on the seeded digraph s: its own body,
\* the read of seeded_digraph at its start and those of passthroughs (two,
\* and one for each node with two children).
ForestRuns(s) ==
    IF s.status = "ok"
    THEN LET n == 3 + Cardinality({ m \in s.graph.nodes :
                                      OutDegree(s.graph, m) = 2 })
         IN  { Runs(n * Cardinality(seeds), n, 1, 0) }
    ELSE { Runs(k, 1, 1, 0) : k \in 1..Cardinality(seeds) }

\* The runs of one access of leafy_meta: its own body and the reads of forest,
\* forest_leaves and forest_roots (the first only, when forest raises).
LeafyRuns(s, r) ==
    IF r.status = "ok"
    THEN { Runs(3 * f.full_digraph, 3 * f.seeded_digraph, 3, 1)
           : f \in ForestRuns(s) }
    ELSE { Runs(f.full_digraph, f.seeded_digraph, 1, 1) : f \in ForestRuns(s) }

\* What `forest` can return on the seeded digraph s.
ForestOn(s) ==
    { CheckForest(PruneAll(s, order)) :
        order \in Perms(IF s.status = "ok" THEN Passthroughs(s.graph) ELSE {}) }

\* A read of a property, with the reads and the runs counted.
Access(prop, r, rows, runs) ==
    /\ phase = "ready"
    /\ out' = Out(prop, r, {}, rows)
    /\ accessed' = [accessed EXCEPT ![prop] = Sat(@ + 1)]
    /\ computed' = RunsAdded(computed, runs)
    /\ UNCHANGED <<index, calcs, seeds_arg, seeds, phase, rvars, cvars, lvars,
                   multi_calcs, tags, meta_explode, boomed>>

AccessFullDigraph ==
    \E runs \in { Runs(1, 0, 0, 0) } :
        Access("full_digraph", FullDigraph, {}, runs)

AccessSeededDigraph ==
    \E r \in SeededDigraphResults :
        \E runs \in SeededRuns(r) : Access("seeded_digraph", r, {}, runs)

AccessForest ==
    \E s \in SeededDigraphResults :
        \E r \in ForestOn(s) :
            \E runs \in ForestRuns(s) : Access("forest", r, {}, runs)

AccessLeafyMeta ==
    \E s \in SeededDigraphResults :
        \E r \in ForestOn(s) :
            IF r.status = "raised" \/ LeafyRaises(r.graph)
            THEN \E runs \in LeafyRuns(s, r) :
                    Access("leafy_meta", Raised, {}, runs)
            ELSE \E rows \in LeafyRows(r.graph) :
                    \E runs \in LeafyRuns(s, r) :
                        Access("leafy_meta", r, rows, runs)

AccessCalcs == { Calc(A, B, 1), Calc(B, C, 1) }

\* The reads of the properties of one instance, counted.
NextAccess ==
    \/ \E n \in SourceNodes : AddRow(n)
    \/ \E c \in AccessCalcs : AddCalc(c)
    \/ \E v \in WeightSeeds : Construct(v)
    \/ AccessFullDigraph
    \/ AccessSeededDigraph
    \/ AccessForest
    \/ AccessLeafyMeta

\* The same operations with a tags dataframe.
NextTags ==
    \/ \E n \in SourceNodes : AddRow(n)
    \/ \E c \in SourceCalcs : AddCalc(c)
    \/ \E n \in SourceNodes, d \in [TagColumns -> TagValues] : AddTag(n, d)
    \/ \E v \in WeightSeeds : Construct(v)
    \/ ReadLeafyMeta

\* The same operations on metadata with components that list several
\* source tables.
NextSources ==
    \/ \E n \in SourceNodes : AddRow(n)
    \/ \E c \in SourceCalcs : AddCalc(c)
    \/ \E m \in MultiCalcs : AddMultiCalc(m)
    \/ \E v \in WeightSeeds : Construct(v)
    \/ ReadFullDigraph
    \/ ReadSeededDigraph

\* The same operations on the metadata of WeightNodes and WeightCalcs.
NextWeights ==
    \/ \E n \in WeightNodes : AddRow(n)
    \/ \E c \in WeightCalcs : AddCalc(c)
    \/ \E v \in WeightSeeds : Construct(v)
    \/ ReadFullDigraph
    \/ ReadSeededDigraph
    \/ ReadPassthroughs

----------------------------------------------------------------------------
(* Exploder: the data side.  Dataframes are sets of row records (the rows   *)
(* have distinct primary keys); a missing value (NaN, NA) is Null and a    *)
(* value v is Some(v).  Amounts are whole numbers.  The only primary-key   *)
(* column besides xbrl_factoid and table_name is report_year, and no table *)
(* has a utility_type or subdimension column.                              *)

Component(name, tbl, w) == [name |-> name, source_table |-> tbl, weight |-> w]

MetaRow(tbl, f, rt, intra, cs) ==
    [table_name |-> tbl, xbrl_factoid |-> f, row_type_xbrl |-> rt,
     intra_table_calc_flag |-> intra, calculations |-> cs]

\* The rows of metadata_exploded that are the same in every metadata the
\* model draws from: the reported components, and the correction record of
\* total.
ReportedMeta ==
    { MetaRow("t2", X, "reported_value", TRUE, {}),
      MetaRow("t2", Y, "reported_value", TRUE, {}),
      MetaRow("t3", Y, "reported_value", TRUE, {}),
      MetaRow("t1", Append(TOTAL, CORR), "correction", FALSE, {}) }

\* The metadata row of the factoid total of table t1, in the metadata the
\* model draws from: an inter-table calculation with two components of one
\* table, the same with its correction component, one with components of two
\* tables, an intra-table calculation, and a reported value.
TotalMetaInputs ==
    { MetaRow("t1", TOTAL, "calculated_value", FALSE,
              { Component(X, "t2", 1), Component(Y, "t2", -1) }),
      MetaRow("t1", TOTAL, "calculated_value", FALSE,
              { Component(X, "t2", 1), Component(Y, "t2", -1),
                Component(Append(TOTAL, CORR), "t1", 1) }),
      MetaRow("t1", TOTAL, "calculated_value", FALSE,
              { Component(X, "t2", 1), Component(Y, "t3", -1) }),
      MetaRow("t1", TOTAL, "calculated_value", TRUE,
              { Component(X, "t2", 1), Component(Y, "t2", -1) }),
      MetaRow("t1", TOTAL, "reported_value", FALSE, {}) }

Years == {1, 2}

TableRow(tbl, f, y, v) ==
    [table_name |-> tbl, xbrl_factoid |-> f, report_year |-> y, value |-> v]

\* The rows the input tables may hold.
TableRowUniverse ==
    { TableRow("t1", TOTAL, y, v) :
        y \in Years, v \in {Null, Some(100), Some(100000)} }
    \cup { TableRow("t2", X, y, v) :
        y \in Years, v \in {Null, Some(97), Some(100001)} }
    \cup { TableRow("t2", Y, y, Some(-3)) : y \in Years }
    \cup { TableRow("t3", Y, y, Some(-3)) : y \in Years }

\* The most rows the input tables may hold together.
MaxRows == 5

\* calculation_tolerance values the caller may pass, in percent.
DefaultTolerance == 5

Tolerances == {DefaultTolerance, 50}

\* exploded_pks
SamePk(r, q) ==
    /\ r.table_name = q.table_name
    /\ r.xbrl_factoid = q.xbrl_factoid
    /\ r.report_year = q.report_year

\* A dataframe: its rows, and whether it has the calculated_amount column.
Frame(rows, has) == [rows |-> rows, has_calculated_amount |-> has]

NoFrame == Frame({}, FALSE)

DataRow(tbl, f, y, v, rt, intra, ca, ad, orig) ==
    [table_name |-> tbl, xbrl_factoid |-> f, report_year |-> y, value |-> v,
     row_type_xbrl |-> rt, intra_table_calc_flag |-> intra,
     calculated_amount |-> ca, abs_diff |-> ad, original_factoid |-> orig]

\* initial_explosion_concatenation: the tables' rows with their table_name,
\* left-merged with the metadata on (xbrl_factoid, table_name).
InitialExplosionConcatenation(tbls, meta) ==
    Frame({ LET ms == { m \in meta : /\ m.table_name = r.table_name
                                      /\ m.xbrl_factoid = r.xbrl_factoid }
            IN  IF ms = {}
                THEN DataRow(r.table_name, r.xbrl_factoid, r.report_year,
                             r.value, "NA", Null, Null, Null, Null)
                ELSE LET m == CHOOSE m \in ms : TRUE
                     IN  DataRow(r.table_name, r.xbrl_factoid, r.report_year,
                                 r.value, m.row_type_xbrl,
                                 Some(m.intra_table_calc_flag),
                                 Null, Null, Null)
          : r \in tbls }, FALSE)

\* name.str.contains("correction")
ContainsCorrection(f) == \E i \in 1..Len(f) : f[i] = CORR

\* The metadata rows generate_intertable_calculations works on.
InterTableCalcs(meta) ==
    { m \in meta : /\ ~m.intra_table_calc_flag
                   /\ m.row_type_xbrl = "calculated_value" }

\* calculation_df once the correction components are removed.
NonCorrectionComponents(m) ==
    { c \in m.calculations : ~ContainsCorrection(c.name) }

\* The rows of `rows` that are data of the component c.
ComponentRows(rows, c) ==
    { r \in rows : r.xbrl_factoid = c.name /\ r.table_name = c.source_table }

RECURSIVE SumAmounts(_)
\* The sum of the amounts of a set of [row, amount] pairs.
SumAmounts(S) ==
    IF S = {} THEN 0
    ELSE LET p == CHOOSE x \in S : TRUE
         IN  p.amount + SumAmounts(S \ {p})

\* The sum of the values of a group of component rows, the weights left out.
UnweightedSum(group) ==
    LET there == { p \in group : p.row.value # Null }
    IN  IF there = {} THEN Null
        ELSE Some(SumAmounts({ [row |-> p.row, amount |-> Val(p.row.value)]
                               : p \in there }))

\* .sum(min_count=1) of value * weight over a group of component rows, each
\* given with its component's weight: Null unless a value is there.
WeightedSum(group) ==
    LET there == { p \in group : p.row.value # Null }
    IN  IF there = {} THEN Null
        ELSE Some(SumAmounts({ [row |-> p.row,
                                amount |-> Val(p.row.value) * p.weight]
                               : p \in there }))

\* calc_df of one calculated factoid m: the component rows with their
\* weights, grouped by the primary key without xbrl_factoid (report_year and
\* table_name), summed, and renamed to the calculated factoid and its table.
\* group_table keeps the table_name the group had before it was overwritten.
CalcDf(rows, m) ==
    LET weighted == UNION { { [row |-> r, weight |-> c.weight]
                              : r \in ComponentRows(rows, c) }
                            : c \in NonCorrectionComponents(m) }
        keys == { <<p.row.report_year, p.row.table_name>> : p \in weighted }
    IN  { [table_name |-> m.table_name, xbrl_factoid |-> m.xbrl_factoid,
           report_year |-> k[1], group_table |-> k[2],
           calculated_amount |->
               WeightedSum({ p \in weighted :
                               /\ p.row.report_year = k[1]
                               /\ p.row.table_name = k[2] })]
          : k \in keys }

\* exploded.set_index(...).loc[calc_comp_idx] raises KeyError for a component
\* without any row in the data.
ComponentMissing(rows, m) ==
    \E c \in NonCorrectionComponents(m) : ComponentRows(rows, c) = {}

\* The result of a stage of boom: the frame, or the exception raised.
StageResult(frame, exc) == [frame |-> frame, raised |-> exc]

\* generate_intertable_calculations
GenerateIntertableCalculations(df, meta) ==
    LET inter   == InterTableCalcs(meta)
        parents == { m \in inter : m.calculations # {} }
        right   == UNION { CalcDf(df.rows, m) : m \in parents }
        both_or_left ==
            { LET hit == { c \in right : SamePk(c, r) }
              IN  [r EXCEPT !.calculated_amount =
                      IF hit = {} THEN Null
                      ELSE (CHOOSE c \in hit : TRUE).calculated_amount]
              : r \in df.rows }
        right_only ==
            { DataRow(c.table_name, c.xbrl_factoid, c.report_year, Null,
                      "NA", Null, c.calculated_amount, Null, Null)
              : c \in { d \in right : ~\E r \in df.rows : SamePk(d, r) } }
    IN  IF inter = {} THEN StageResult(df, "none")
        ELSE IF \E m \in parents : ComponentMissing(df.rows, m)
             THEN StageResult(NoFrame, "KeyError")
        ELSE IF parents = {} THEN StageResult(NoFrame, "ValueError")
        ELSE IF \E c, d \in right : c # d /\ SamePk(c, d)
             THEN StageResult(NoFrame, "MergeError")
        ELSE IF { r \in right_only : r.value # Null } # {}
             THEN StageResult(NoFrame, "AssertionError")
        ELSE StageResult(Frame(both_or_left \cup right_only, TRUE), "none")

Abs(n) == IF n < 0 THEN -n ELSE n

\* 1 / rtol of numpy.isclose (rtol = 1e-05; atol = 1e-08 is below any
\* difference of two whole numbers).
RtolInverse == 100000

\* Equality without any tolerance.
IsExactlyEqual(a, b) == a = b

\* numpy.isclose(a, b) on values that are there:
\* abs(a - b) <= atol + rtol * abs(b).
IsClose(a, b) == Abs(a - b) <= Abs(b) \div RtolInverse

\* abs(x[value_col] - x.calculated_amount)
AbsDiff(r) ==
    IF r.value = Null \/ r.calculated_amount = Null THEN Null
    ELSE Some(Abs(Val(r.value) - Val(r.calculated_amount)))

\* off_df
OffDf(rows) ==
    { r \in rows :
        /\ r.abs_diff # Null
        /\ ~IsClose(Val(r.calculated_amount), Val(r.value)) }

\* calculated_values
CalculatedValues(rows) == { r \in rows : r.abs_diff # Null }

\* off_ratio >= calculation_tolerance: raising at the tolerance itself.
OffRatioAtLeast(n_off, n_calc, tol) == n_off * 100 >= tol * n_calc

\* off_ratio > calculation_tolerance, with n_off / n_calc the ratio and the
\* tolerance given in percent.
OffRatioExceeds(n_off, n_calc, tol) == n_off * 100 > tol * n_calc

\* A correction record with the difference taken the other way round.
CorrectionReversed(r) ==
    [r EXCEPT !.value = Some(Val(r.calculated_amount)
                             - (IF r.value = Null THEN 0 ELSE Val(r.value))),
              !.original_factoid = Some(r.xbrl_factoid),
              !.xbrl_factoid = Append(r.xbrl_factoid, CORR),
              !.row_type_xbrl = "correction",
              !.intra_table_calc_flag = Some(FALSE)]

\* The correction record made from an off row.
Correction(r) ==
    [r EXCEPT !.value = Some((IF r.value = Null THEN 0 ELSE Val(r.value))
                             - Val(r.calculated_amount)),
              !.original_factoid = Some(r.xbrl_factoid),
              !.xbrl_factoid = Append(r.xbrl_factoid, CORR),
              !.row_type_xbrl = "correction",
              !.intra_table_calc_flag = Some(FALSE)]

\* reconcile_intertable_calculations
ReconcileIntertableCalculations(df, tol) ==
    IF ~df.has_calculated_amount THEN StageResult(df, "none")
    ELSE LET rows   == { [r EXCEPT !.abs_diff = AbsDiff(r)] : r \in df.rows }
             off    == OffDf(rows)
             n_calc == Cardinality(CalculatedValues(rows))
         IN  IF n_calc = 0 THEN StageResult(NoFrame, "ZeroDivisionError")
             ELSE IF OffRatioExceeds(Cardinality(off), n_calc, tol)
                  THEN StageResult(NoFrame, "AssertionError")
             ELSE StageResult(Frame(rows \cup { Correction(r) : r \in off }, TRUE),
                        "none")

----------------------------------------------------------------------------
(* Exploder.boom as a state machine: the tables are filled, then boom runs *)
(* its stages in order; an exception ends the run.                         *)

\* exploded_meta of the calculation_forest the constructor builds: the
\* index of metadata_exploded, and its calculations column.
MetaIndex(meta) == { NodeId(m.table_name, m.xbrl_factoid) : m \in meta }

MetaCalcs(meta) ==
    UNION { { Calc(NodeId(m.table_name, m.xbrl_factoid),
                   NodeId(c.source_table, c.name), c.weight)
              : c \in m.calculations } : m \in meta }

\* The seeds the Exploder is constructed with: the factoid total.
ExploderSeeds == { NodeId("t1", TOTAL) }

\* The stage boom is in after a stage that raised exc ("none": it returned)
\* and that is followed by the stage next.
StageAfterSwallowingRaise(exc, next) == next

\* An exception leaves boom: nothing of it runs afterwards.
StageAfter(exc, next) == IF exc = "none" THEN next ELSE "failed"

\* The dataframe .pipe hands to leafy_data, with the columns leafy_data
\* reads: the value column is ending_balance, and the tables of the model
\* hold no starting balance.
AsBalances(rows) ==
    { [table_name |-> r.table_name, xbrl_factoid |-> r.xbrl_factoid,
       report_year |-> r.report_year, starting_balance |-> Null,
       ending_balance |-> r.value] : r \in rows }

\* An Exploder, constructed with its metadata, before boom is called.
InitExplode ==
    /\ \E m \in TotalMetaInputs : metadata_exploded = ReportedMeta \cup {m}
    /\ tables = {}
    /\ stage = "tables"
    /\ exploded = NoFrame
    /\ calculated_df = NoFrame
    /\ reconciled = NoFrame
    /\ returned = NoFrame
    /\ tolerance = DefaultTolerance
    /\ raised = "none"
    /\ index = MetaIndex(metadata_exploded)
    /\ calcs = MetaCalcs(metadata_exploded)
    /\ seeds_arg = ExploderSeeds
    /\ seeds = ExploderSeeds
    /\ phase = "ready"
    /\ out = NoOut
    /\ categories = <<>>
    /\ instance = <<>>
    /\ cat_phase = "input"
    /\ col_input = <<>>
    /\ col = <<>>
    /\ n_applied = 0
    /\ layers = <<>>
    /\ lc_read_only = FALSE
    /\ lc_last = [op |-> "none"]
    /\ multi_calcs = {}
    /\ tags = <<>>
    /\ accessed = [full_digraph |-> 0, seeded_digraph |-> 0, forest |-> 0,
                   leafy_meta |-> 0]
    /\ computed = [full_digraph |-> 0, seeded_digraph |-> 0, forest |-> 0,
                   leafy_meta |-> 0]
    /\ meta_explode = {}
    /\ boomed = [status |-> "none"]

\* A row of one of the tables_to_explode.
AddTableRow(r) ==
    /\ stage = "tables"
    /\ Cardinality(tables) < MaxRows
    /\ ~\E q \in tables : SamePk(q, r)
    /\ tables' = tables \cup {r}
    /\ UNCHANGED <<metadata_exploded, stage, exploded, calculated_df,
                   reconciled, returned, tolerance, raised, fvars, ovars>>

\* boom(tables_to_explode, calculation_tolerance): the first stage.
Concatenate(tol) ==
    /\ stage = "tables"
    /\ tolerance' = tol
    /\ exploded' = InitialExplosionConcatenation(tables, metadata_exploded)
    /\ stage' = "concatenated"
    /\ UNCHANGED <<metadata_exploded, tables, calculated_df, reconciled,
                   returned, raised, fvars, ovars>>

Generate ==
    /\ stage = "concatenated"
    /\ LET r == GenerateIntertableCalculations(exploded, metadata_exploded)
       IN  /\ calculated_df' = r.frame
           /\ raised' = r.raised
           /\ stage' = StageAfter(r.raised, "generated")
    /\ UNCHANGED <<metadata_exploded, tables, exploded, reconciled,
                   returned, tolerance, fvars, ovars>>

Reconcile ==
    /\ stage = "generated"
    /\ LET r == ReconcileIntertableCalculations(calculated_df, tolerance)
       IN  /\ reconciled' = r.frame
           /\ raised' = r.raised
           /\ stage' = StageAfter(r.raised, "reconciled")
    /\ UNCHANGED <<metadata_exploded, tables, exploded, calculated_df,
                   returned, tolerance, fvars, ovars>>

\* The last stage of boom: calculation_forest.leafy_data, whose result boom
\* returns.  "ForestError" stands for whatever the forest's properties
\* raise (KeyError, NetworkXError, AssertionError, ValueError, MergeError).
LeafyDataStage ==
    /\ stage = "reconciled"
    /\ \E r \in ForestResults :
          IF r.status = "raised" \/ LeafyRaises(r.graph)
          THEN /\ returned' = NoFrame
               /\ raised' = "ForestError"
               /\ stage' = StageAfter("ForestError", "returned")
          ELSE \E meta \in LeafyRows(r.graph) :
                  /\ returned' = Frame(LeafyData(meta,
                                                 AsBalances(reconciled.rows)),
                                       reconciled.has_calculated_amount)
                  /\ raised' = "none"
                  /\ stage' = StageAfter("none", "returned")
    /\ UNCHANGED <<metadata_exploded, tables, exploded, calculated_df,
                   reconciled, tolerance, fvars, ovars>>

NextExplode ==
    \/ \E r \in TableRowUniverse : AddTableRow(r)
    \/ \E tol \in Tolerances : Concatenate(tol)
    \/ Generate
    \/ Reconcile
    \/ LeafyDataStage

----------------------------------------------------------------------------
(* StringCategories and categorize_strings (pudl.transform.ferc1).  The     *)
(* categories dict is a sequence of [cat, strings] records, in the order   *)
(* of its keys; a column is a sequence of strings, NA among them.          *)

\* The default of the field na_category.
NaCategory == "na_category"

\* pd.NA in a column.
NA == "<NA>"

\* The category names and the strings the model draws from.
CategoryNames == {"a", "b", NaCategory}

RawStrings == {"a", "b", "x"}

\* The most keys the categories dict may hold.
MaxCategories == 2

\* The columns categorize_strings is called with; "z" is in no category.
Columns ==
    { <<s>> : s \in RawStrings \cup {"z"} }
    \cup { <<s, t>> : s \in {"x", "a"}, t \in {"b", "z"} }

\* The validator categories_are_disjoint: whether it returns (no two
\* categories share a string) or raises ValueError.
CategoriesAreDisjoint(v) ==
    \A i, j \in 1..Len(v) : i < j => v[i].strings \cap v[j].strings = {}

\* The validator categories_are_idempotent: every category gets its own
\* name added to its strings.
CategoriesAreIdempotent(v) ==
    [ i \in 1..Len(v) |->
        [cat |-> v[i].cat, strings |-> v[i].strings \cup {v[i].cat}] ]

\* The mapping property: the dict comprehension goes through the categories
\* in order, so a string of several categories ends with the last of them.
MappingKeys(v) == UNION { v[i].strings : i \in 1..Len(v) }

Mapping(v) ==
    [ s \in MappingKeys(v) |->
        LET last == CHOOSE i \in 1..Len(v) :
                       /\ s \in v[i].strings
                       /\ \A j \in (i + 1)..Len(v) : s \notin v[j].strings
        IN  v[last].cat ]

\* categorize_strings(col, params): col.map(mapping) gives NA for what the
\* mapping has no key for, and the na_category becomes NA.
CategorizeStrings(c, v) ==
    [ i \in 1..Len(c) |->
        LET mapped == IF c[i] \in MappingKeys(v)
                      THEN Mapping(v)[c[i]] ELSE NA
        IN  IF mapped = NaCategory THEN NA ELSE mapped ]

\* No StringCategories yet, and nothing categorized.
InitCategories ==
    /\ categories = <<>>
    /\ instance = <<>>
    /\ cat_phase = "input"
    /\ col_input = <<>>
    /\ col = <<>>
    /\ n_applied = 0
    /\ layers = <<>>
    /\ lc_read_only = FALSE
    /\ lc_last = [op |-> "none"]
    /\ multi_calcs = {}
    /\ tags = <<>>
    /\ accessed = [full_digraph |-> 0, seeded_digraph |-> 0, forest |-> 0,
                   leafy_meta |-> 0]
    /\ computed = [full_digraph |-> 0, seeded_digraph |-> 0, forest |-> 0,
                   leafy_meta |-> 0]
    /\ meta_explode = {}
    /\ boomed = [status |-> "none"]
    /\ index = {}
    /\ calcs = {}
    /\ seeds_arg = {}
    /\ seeds = {}
    /\ phase = "build"
    /\ out = NoOut
    /\ metadata_exploded = {}
    /\ tables = {}
    /\ stage = "tables"
    /\ exploded = NoFrame
    /\ calculated_df = NoFrame
    /\ reconciled = NoFrame
    /\ returned = NoFrame
    /\ tolerance = DefaultTolerance
    /\ raised = "none"

\* One more key of the dict the StringCategories will be constructed with.
AddCategory(cat, strings) ==
    /\ cat_phase = "input"
    /\ Len(categories) < MaxCategories
    /\ \A i \in 1..Len(categories) : categories[i].cat # cat
    /\ categories' = Append(categories, [cat |-> cat, strings |-> strings])
    /\ UNCHANGED <<instance, cat_phase, col_input, col, n_applied,
                   fvars, rvars, lvars, xvars>>

\* StringCategories(categories=...): the validators of the field run in the
\* order the class defines them, categories_are_disjoint first.
ConstructCategories ==
    /\ cat_phase = "input"
    /\ IF CategoriesAreDisjoint(categories)
       THEN /\ instance' = CategoriesAreIdempotent(categories)
            /\ cat_phase' = "valid"
       ELSE /\ instance' = <<>>
            /\ cat_phase' = "invalid"
    /\ UNCHANGED <<categories, col_input, col, n_applied, fvars, rvars,
                   lvars, xvars>>

\* categorize_strings on a column, and on what it returned.
Categorize(c) ==
    /\ cat_phase = "valid"
    /\ n_applied = 0
    /\ col_input' = c
    /\ col' = CategorizeStrings(c, instance)
    /\ n_applied' = 1
    /\ UNCHANGED <<categories, instance, cat_phase, fvars, rvars, lvars, xvars>>

CategorizeAgain ==
    /\ cat_phase = "valid"
    /\ n_applied = 1
    /\ col' = CategorizeStrings(col, instance)
    /\ n_applied' = 2
    /\ UNCHANGED <<categories, instance, cat_phase, col_input, fvars, rvars,
                   lvars, xvars>>

NextCategories ==
    \/ \E cat \in CategoryNames, strings \in SUBSET RawStrings :
          AddCategory(cat, strings)
    \/ ConstructCategories
    \/ \E c \in Columns : Categorize(c)
    \/ CategorizeAgain

----------------------------------------------------------------------------
(* LayeredCache (pudl.workspace.resource_cache), as its unit tests describe *)
(* it: a list of cache layers, each with a read-only flag and a storage    *)
(* that maps a resource to its content.                                    *)

Resources == {"r1", "r2"}

Contents == {"v1", "v2"}

\* What a storage holds for a resource it does not contain.
Absent == "absent"

\* The most layers a LayeredCache is given.
MaxLayers == 2

\* The storage a layer may hold when it is made a layer of the cache.
InitialStores ==
    { [r \in Resources |-> Absent],
      [r \in Resources |-> IF r = "r1" THEN "v1" ELSE Absent] }

Layer(ro, store) == [read_only |-> ro, store |-> store]

\* cache.contains(resource) of one layer.
LayerContains(l, res) == l.store[res] # Absent

\* LayeredCache.contains: some layer contains the resource.
LcContains(ls, res) == \E i \in 1..Len(ls) : LayerContains(ls[i], res)

\* The layers add and delete may write to.
WritableLayers(ls) == { i \in 1..Len(ls) : ~ls[i].read_only }

\* The first layer, read-only or not (0: there is none).
FirstLayer(ls) == IF Len(ls) = 0 THEN 0 ELSE 1

\* The layer add and delete act on: the first one that is not read-only
\* (0: there is none).
FirstWritable(ls) ==
    IF WritableLayers(ls) = {} THEN 0
    ELSE CHOOSE i \in WritableLayers(ls) : \A j \in WritableLayers(ls) : i <= j

\* The last layer that contains the resource (0: there is none).
RightmostHolding(ls, res) ==
    LET holding == { i \in 1..Len(ls) : LayerContains(ls[i], res) }
    IN  IF holding = {} THEN 0
        ELSE CHOOSE i \in holding : \A j \in holding : j <= i

\* The layer get reads: the first one that contains the resource (0: there
\* is none).
LeftmostHolding(ls, res) ==
    LET holding == { i \in 1..Len(ls) : LayerContains(ls[i], res) }
    IN  IF holding = {} THEN 0
        ELSE CHOOSE i \in holding : \A j \in holding : i <= j

\* The layers after storage[res] of layer i is set to v.
WithStore(ls, i, res, v) == [ls EXCEPT ![i].store[res] = v]

LastCall(op, res, val, before, result) ==
    [op |-> op, res |-> res, val |-> val, before |-> before,
     result |-> result]

\* LayeredCache(read_only=...), without layers yet.
InitCache ==
    /\ layers = <<>>
    /\ lc_read_only \in BOOLEAN
    /\ lc_last = [op |-> "none"]
    /\ multi_calcs = {}
    /\ tags = <<>>
    /\ accessed = [full_digraph |-> 0, seeded_digraph |-> 0, forest |-> 0,
                   leafy_meta |-> 0]
    /\ computed = [full_digraph |-> 0, seeded_digraph |-> 0, forest |-> 0,
                   leafy_meta |-> 0]
    /\ meta_explode = {}
    /\ boomed = [status |-> "none"]
    /\ categories = <<>>
    /\ instance = <<>>
    /\ cat_phase = "input"
    /\ col_input = <<>>
    /\ col = <<>>
    /\ n_applied = 0
    /\ index = {}
    /\ calcs = {}
    /\ seeds_arg = {}
    /\ seeds = {}
    /\ phase = "build"
    /\ out = NoOut
    /\ metadata_exploded = {}
    /\ tables = {}
    /\ stage = "tables"
    /\ exploded = NoFrame
    /\ calculated_df = NoFrame
    /\ reconciled = NoFrame
    /\ returned = NoFrame
    /\ tolerance = DefaultTolerance
    /\ raised = "none"

\* add_cache_layer(cache), or a layer given to the constructor.
AddCacheLayer(ro, store) ==
    /\ Len(layers) < MaxLayers
    /\ layers' = Append(layers, Layer(ro, store))
    /\ lc_last' = [op |-> "add_cache_layer"]
    /\ UNCHANGED <<lc_read_only, fvars, rvars, cvars, xvars>>

\* LayeredCache.add(resource, value)
LcAdd(res, val) ==
    /\ layers' = IF lc_read_only \/ FirstWritable(layers) = 0 THEN layers
                 ELSE WithStore(layers, FirstWritable(layers), res, val)
    /\ lc_last' = LastCall("add", res, val, layers, "none")
    /\ UNCHANGED <<lc_read_only, fvars, rvars, cvars, xvars>>

\* LayeredCache.delete(resource)
LcDelete(res) ==
    /\ layers' = IF lc_read_only \/ FirstWritable(layers) = 0 THEN layers
                 ELSE WithStore(layers, FirstWritable(layers), res, Absent)
    /\ lc_last' = LastCall("delete", res, Absent, layers, "none")
    /\ UNCHANGED <<lc_read_only, fvars, rvars, cvars, xvars>>

\* LayeredCache.get(resource)
LcGet(res) ==
    /\ lc_last' =
          LastCall("get", res, Absent, layers,
                   IF LeftmostHolding(layers, res) = 0 THEN "KeyError"
                   ELSE layers[LeftmostHolding(layers, res)].store[res])
    /\ UNCHANGED <<layers, lc_read_only, fvars, rvars, cvars, xvars>>

\* add and delete called on a layer itself, one that is not read-only.
LayerAdd(i, res, val) ==
    /\ i \in WritableLayers(layers)
    /\ layers' = WithStore(layers, i, res, val)
    /\ lc_last' = LastCall("layer_add", res, val, layers, "none")
    /\ UNCHANGED <<lc_read_only, fvars, rvars, cvars, xvars>>

LayerDelete(i, res) ==
    /\ i \in WritableLayers(layers)
    /\ layers' = WithStore(layers, i, res, Absent)
    /\ lc_last' = LastCall("layer_delete", res, Absent, layers, "none")
    /\ UNCHANGED <<lc_read_only, fvars, rvars, cvars, xvars>>

NextCache ==
    \/ \E ro \in BOOLEAN, store \in InitialStores : AddCacheLayer(ro, store)
    \/ \E res \in Resources, val \in Contents : LcAdd(res, val)
    \/ \E res \in Resources : LcDelete(res)
    \/ \E res \in Resources : LcGet(res)
    \/ \E i \in 1..MaxLayers, res \in Resources, val \in Contents :
          LayerAdd(i, res, val)
    \/ \E i \in 1..MaxLayers, res \in Resources : LayerDelete(i, res)

----------------------------------------------------------------------------
(* The specifications: the calculation forest, and the explosion of data.  *)

Spec == Init /\ [][Next]_vars

SpecExplode == InitExplode /\ [][NextExplode]_vars

SpecCategories == InitCategories /\ [][NextCategories]_vars

SpecWeights == Init /\ [][NextWeights]_vars

SpecSources == Init /\ [][NextSources]_vars

SpecTags == Init /\ [][NextTags]_vars

SpecAccess == Init /\ [][NextAccess]_vars

-----------------------------------------------------------------------------
\* MetadataExploder: the metadata of the tables of one explosion.

\* MetadataExploder.table_names; "t9" below is a table outside the explosion.
ExplosionTables == {"t1", "t2"}

\* One entry of a calculations list; source_tables is the list of its tables.
CalcComponent(name, tbls) == [name |-> name, source_tables |-> tbls]

\* The calculations a metadata row can carry ("[]" is the empty one).
CalculationsUniverse ==
    { {},
      { CalcComponent("b", {"t1"}) },
      { CalcComponent("b", {"t2"}) },
      { CalcComponent("c", {"t9"}) },
      { CalcComponent("c", {"t1", "t9"}) },
      { CalcComponent("b", {"t1"}), CalcComponent("c", {"t9"}) } }

XbrlMetaRow(tbl, f, cs) ==
    [table_name |-> tbl, xbrl_factoid |-> f, calculations |-> cs,
     row_type_xbrl |-> IF cs = {} THEN "reported_value"
                       ELSE "calculated_value"]

XbrlMetaRows ==
    { XbrlMetaRow(tbl, f, cs) :
        tbl \in ExplosionTables, f \in {"a", "d"}, cs \in CalculationsUniverse }

\* A classification that asks for every source table.
InExplosionAllTables(source_tables, in_explosion_table_names) ==
    \A tbl \in source_tables : tbl \in in_explosion_table_names

\* in_explosion_tables: any of the source tables is one of the explosion's.
InExplosionTables(source_tables, in_explosion_table_names) ==
    \E tbl \in source_tables : tbl \in in_explosion_table_names

\* One row for each component of each calculation, with the table and the
\* factoid of the row that carries the calculation.
ConvertCalculationsIntoCalculationComponentTable(metadata) ==
    { [name |-> c.name, source_tables |-> c.source_tables,
       table_name |-> m.table_name, xbrl_factoid |-> m.xbrl_factoid,
       row_type_xbrl |-> m.row_type_xbrl] :
        <<m, c>> \in { <<m, c>> \in metadata \X
                          UNION { n.calculations : n \in metadata } :
                          c \in m.calculations } }

\* A demotion that leaves the row type alone.
DemotedCalculationsOnly(m) == [m EXCEPT !.calculations = {}]

\* The row after the assignment of ("[]", "reported_value").
Demoted(m) ==
    [m EXCEPT !.calculations = {}, !.row_type_xbrl = "reported_value"]

\* meta_explode.xbrl_factoid.isin(not_in_explosion_xbrl_factoids)
DemotedByFactoid(m, not_in_explosion) ==
    m.xbrl_factoid \in { c.xbrl_factoid : c \in not_in_explosion }

\* redefine_calculations_with_components_out_of_explosion.  Without a
\* single component the component table has no source_tables column (or
\* nothing to concatenate) and the method raises.
RedefineCalculationsWithComponentsOutOfExplosion(meta, table_names) ==
    LET calc_explode == ConvertCalculationsIntoCalculationComponentTable(meta)
        not_in_explosion ==
            { c \in calc_explode :
                ~InExplosionTables(c.source_tables, table_names) }
    IN  IF calc_explode = {} THEN [status |-> "raised"]
        ELSE [status |-> "ok",
              rows |-> { IF DemotedByFactoid(m, not_in_explosion)
                         THEN Demoted(m) ELSE m : m \in meta },
              inter_table_components_in_intra_table_calc |->
                  { c.name : c \in not_in_explosion }]

\* The metadata of one factoid of one table, as the table's transformer
\* gives it to boom.
AddXbrlMetadata(m) ==
    /\ boomed.status = "none"
    /\ \A n \in meta_explode :
          n.table_name # m.table_name \/ n.xbrl_factoid # m.xbrl_factoid
    /\ meta_explode' = meta_explode \cup {m}
    /\ UNCHANGED <<fvars, rvars, cvars, lvars, multi_calcs, tags, accessed,
                   computed, boomed>>

\* MetadataExploder.boom
MetaBoom ==
    /\ boomed.status = "none"
    /\ boomed' = RedefineCalculationsWithComponentsOutOfExplosion(
                     meta_explode, ExplosionTables)
    /\ UNCHANGED <<fvars, rvars, cvars, lvars, multi_calcs, tags, accessed,
                   computed, meta_explode>>

NextMeta ==
    \/ \E m \in XbrlMetaRows : AddXbrlMetadata(m)
    \/ MetaBoom

SpecMeta == Init /\ [][NextMeta]_vars

SpecCache == InitCache /\ [][NextCache]_vars

----------------------------------------------------------------------------
(* Claims about the calculation forest                                     *)

ForestReturned == out.prop = "forest" /\ out.status = "ok"

SeededReturned == out.prop = "seeded_digraph" /\ out.status = "ok"

LeafyReturned == out.prop = "leafy_meta" /\ out.status = "ok"

\* The seeded digraph of the current metadata and seeds (its nodes and edges
\* do not depend on the order of the rows).
TheSeeded == CHOOSE r \in SeededDigraphResults : TRUE

\* C1: whatever the metadata and the seeds, the graph `forest` returns is
\* acyclic and each of its nodes has at most one parent.
C1_ForestIsAForest ==
    ForestReturned =>
        /\ IsDag(out.graph)
        /\ \A n \in out.graph.nodes : InDegree(out.graph, n) <= 1

\* Acyclic, and no node with more than one parent.
IsProperForest(G) ==
    /\ IsDag(G)
    /\ \A n \in G.nodes : InDegree(G, n) <= 1

\* C1, amended: the graph `forest` returns is acyclic with at most one parent
\* per node exactly when the seeded digraph already is and holds no
\* passthrough node; nodes with several parents and cycles are not pruned,
\* and the edge added for a passthrough gives its child a second parent.
C1_ForestIffSeededForestWithoutPassthrough ==
    ForestReturned =>
        (IsProperForest(out.graph)
            <=> /\ IsProperForest(TheSeeded.graph)
                /\ Passthroughs(TheSeeded.graph) = {})

C1_Witness ==
    /\ ForestReturned
    /\ IsProperForest(TheSeeded.graph)
    /\ Passthroughs(TheSeeded.graph) # {}
    /\ \E n \in out.graph.nodes : InDegree(out.graph, n) = 2

\* C2: for every passthrough node P of the seeded digraph, with its single
\* parent A and its single non-correction child C, the graph `forest`
\* returns holds neither P nor P's correction child, and holds the edge
\* A -> C.
C2_PassthroughElided ==
    ForestReturned =>
        \A P \in Passthroughs(TheSeeded.graph) :
            \A par \in Predecessors(TheSeeded.graph, P) :
                \A ch \in Successors(TheSeeded.graph, P) :
                    IF EndsWithCorrection(ch)
                    THEN ch \notin out.graph.nodes
                    ELSE /\ P \notin out.graph.nodes
                         /\ <<par, ch>> \in out.graph.edges

\* C3: the nodes of seeded_digraph are the seeds and all their descendants in
\* the full digraph, and its edges are the full digraph's edges between
\* those nodes.
C3_SeededNodesAreSeedsAndDescendants ==
    SeededReturned =>
        LET full == FullDigraph.graph
            want == seeds \cup UNION { Closure(full.edges, {s}) : s \in seeds }
        IN  /\ out.graph.nodes = want
            /\ out.graph.edges =
                  { e \in full.edges : e[1] \in want /\ e[2] \in want }

\* C4: constructed without seeds, the object uses every node of the metadata
\* index as a seed, and seeded_digraph has the nodes and the edges of
\* full_digraph.
C4_NoSeedsIsIdentity ==
    (phase = "ready" /\ seeds_arg = {}) =>
        /\ seeds = index
        /\ SeededReturned =>
              /\ out.graph.nodes = FullDigraph.graph.nodes
              /\ out.graph.edges = FullDigraph.graph.edges

C4_Witness ==
    /\ phase = "ready"
    /\ seeds_arg = {}
    /\ SeededReturned
    /\ Cardinality(out.graph.edges) >= 2
    /\ Cardinality(index) >= 3

\* Every node from n up to a root has at most one parent and lies on no
\* cycle: n has one path to one root.
HasOnePathToRoot(G, n) ==
    \A m \in {n} \cup Ancestors(G, n) :
        InDegree(G, m) <= 1 /\ ~OnCycle(G, m)

RECURSIVE PathWeight(_, _)
\* The product of the weights met walking from n up to its root, the root
\* (which has no weight) counting as 1.
PathWeight(G, n) ==
    IF InDegree(G, n) = 0 THEN 1
    ELSE G.weight[n] * PathWeight(G, CHOOSE p \in Predecessors(G, n) : TRUE)

\* C5: the weight leafy_meta reports for a leaf is the product of the
\* weights of the nodes on the leaf's path to its root (its own weight and
\* that of each ancestor, the root counting as 1), for every leaf that has
\* one such path.
C5_LeafWeightIsPathProduct ==
    LeafyReturned =>
        \A row \in out.rows :
            HasOnePathToRoot(out.graph, row.leaf) =>
                row.weight = PathWeight(out.graph, row.leaf)

C5_Witness ==
    /\ LeafyReturned
    /\ \E row \in out.rows :
          /\ HasOnePathToRoot(out.graph, row.leaf)
          /\ Cardinality(Ancestors(out.graph, row.leaf)) = 2
          /\ \E m \in Ancestors(out.graph, row.leaf) : out.graph.weight[m] = -1
          /\ row.weight = -1 * out.graph.weight[row.leaf]

\* C6: leafy_meta holds rows for leaves of the forest only, exactly one for
\* each leaf (in an acyclic forest, where every leaf has a root), and the
\* root of a row is a node without parent from which the leaf is reachable:
\* the only one, when the leaf has one path to a root.
C6_OneRowPerLeafWithItsRoot ==
    LeafyReturned =>
        LET G == out.graph
        IN  /\ \A row \in out.rows :
                  /\ row.leaf \in G.nodes /\ OutDegree(G, row.leaf) = 0
                  /\ row.root \in G.nodes /\ InDegree(G, row.root) = 0
                  /\ row.leaf \in Closure(G.edges, {row.root})
            /\ \A leaf \in G.nodes :
                  (OutDegree(G, leaf) = 0 /\ IsDag(G)) =>
                      Cardinality({ row \in out.rows : row.leaf = leaf }) = 1
            /\ \A row \in out.rows :
                  HasOnePathToRoot(G, row.leaf) =>
                      \A n \in G.nodes :
                          (InDegree(G, n) = 0
                             /\ row.leaf \in Closure(G.edges, {n}))
                          => n = row.root

C6_Witness ==
    /\ LeafyReturned
    /\ IsDag(out.graph)
    /\ Cardinality(Roots(out.graph)) = 2
    /\ Cardinality(out.rows) = 2
    /\ \A row \in out.rows : HasOnePathToRoot(out.graph, row.leaf)
    /\ \E r1, r2 \in out.rows : r1.root # r2.root

----------------------------------------------------------------------------
(* Claims about the explosion of data                                      *)

\* generate_intertable_calculations has returned a dataframe.
GenerateReturned ==
    \/ stage \in {"generated", "reconciled", "returned"}
    \/ stage = "failed" /\ calculated_df.has_calculated_amount

\* reconcile_intertable_calculations has been called on a dataframe with the
\* calculated_amount column, and has returned or raised.
ReconcileRan ==
    /\ calculated_df.has_calculated_amount
    /\ \/ stage = "reconciled"
       \/ stage = "failed" /\ raised # "ForestError"

\* The rows of the dataframe given to reconcile_intertable_calculations whose
\* difference between the reported and the calculated value is not null.
WithDifference == { r \in calculated_df.rows :
                      r.value # Null /\ r.calculated_amount # Null }

\* The reported value R and the calculated amount K of r differ by more than
\* numpy.isclose allows: |K - R| > 1e-8 + 1e-5 * |R|, which for whole numbers
\* is |K - R| > |R| div 100000.
IsOff(r) ==
    Abs(Val(r.calculated_amount) - Val(r.value))
        > Abs(Val(r.value)) \div RtolInverse

\* The off rows of the dataframe given to reconcile_intertable_calculations.
OffRows == { r \in WithDifference : IsOff(r) }

\* The rows of the reconciled dataframe that are the correction of r.
CorrectionsOf(r) ==
    { c \in reconciled.rows :
        /\ c.xbrl_factoid = Append(r.xbrl_factoid, CORR)
        /\ c.table_name = r.table_name
        /\ c.report_year = r.report_year }

\* C7: reconcile_intertable_calculations raises AssertionError exactly when
\* the number of off rows over the number of rows with a difference is
\* greater than the tolerance; with the ratio at the tolerance or below it
\* raises nothing and returns a dataframe.
C7_RaisesIffRatioAboveTolerance ==
    (ReconcileRan /\ WithDifference # {}) =>
        LET above == Cardinality(OffRows) * 100
                        > tolerance * Cardinality(WithDifference)
        IN  /\ (stage = "failed" /\ raised = "AssertionError") <=> above
            /\ ~above => (stage = "reconciled" /\ raised = "none"
                             /\ reconciled.has_calculated_amount)

\* Half of the rows are off and the tolerance is one half: nothing is raised.
C7_Witness ==
    /\ ReconcileRan
    /\ Cardinality(WithDifference) = 2
    /\ Cardinality(OffRows) = 1
    /\ tolerance = 50
    /\ stage = "reconciled"

C9_InputRowsPlusOnePerOffRow ==
    stage = "reconciled" =>
        IF ~calculated_df.has_calculated_amount
        THEN reconciled = calculated_df
        ELSE /\ \A r \in calculated_df.rows :
                    \E q \in reconciled.rows :
                        /\ SamePk(q, r)
                        /\ q.value = r.value
                        /\ q.calculated_amount = r.calculated_amount
                        /\ q.row_type_xbrl = r.row_type_xbrl
             /\ Cardinality(reconciled.rows)
                    = Cardinality(calculated_df.rows) + Cardinality(OffRows)
             /\ \A r \in calculated_df.rows \ OffRows : CorrectionsOf(r) = {}

\* One row is off, one is within tolerance although its difference is not
\* zero, and one row has no calculated amount.
C9_Witness ==
    /\ ReconcileRan
    /\ stage = "reconciled"
    /\ OffRows # {}
    /\ \E r \in WithDifference \ OffRows :
          /\ r.value # r.calculated_amount
          /\ CorrectionsOf(r) = {}
    /\ \E r \in calculated_df.rows : r.calculated_amount = Null
    /\ Cardinality(reconciled.rows) = Cardinality(calculated_df.rows) + 1

\* Of the calculated factoid m, for the report year y: the components that
\* are no correction record, each with its rows in the concatenated data.
WeightedComponentRows(m, y) ==
    { p \in [row : exploded.rows, weight : {-1, 1}] :
        \E c \in m.calculations :
            /\ ~EndsWithCorrection([xbrl_factoid |-> c.name])
            /\ p.weight = c.weight
            /\ p.row.xbrl_factoid = c.name
            /\ p.row.table_name = c.source_table
            /\ p.row.report_year = y }

\* The amount C10 expects for the calculated factoid m in the report year y.
ExpectedAmount(m, y) ==
    LET there == { p \in WeightedComponentRows(m, y) : p.row.value # Null }
    IN  IF there = {} THEN Null
        ELSE Some(SumAmounts({ [row |-> p.row,
                                amount |-> Val(p.row.value) * p.weight]
                               : p \in there }))

\* generate_intertable_calculations has been called, and has returned or
\* raised.
GenerateRan == stage \in {"generated", "reconciled", "returned", "failed"}

\* C10: for every inter-table calculated factoid F and every report year
\* for which a component of F has data, generate_intertable_calculations
\* gives F a row whose calculated_amount is the sum over F's non-correction
\* components of the component's reported value times its weight (null when
\* no component has a value that is not null), whenever every component of
\* F has rows in the data.
C10_EveryInterTableCalcIsSummed ==
    (/\ GenerateRan
     /\ \A m \in InterTableCalcs(metadata_exploded) :
            ~ComponentMissing(exploded.rows, m))
    => \A m \in InterTableCalcs(metadata_exploded) :
           \A y \in Years :
               WeightedComponentRows(m, y) # {} =>
                   \E r \in calculated_df.rows :
                       /\ r.table_name = m.table_name
                       /\ r.xbrl_factoid = m.xbrl_factoid
                       /\ r.report_year = y
                       /\ r.calculated_amount = ExpectedAmount(m, y)

\* C10, on the runs where generate_intertable_calculations returns: the
\* calculated_amount of the row of every inter-table calculated factoid F,
\* for every report year, is the sum over F's non-correction components of
\* the component's
\* reported value times its weight, and null when no component has a value
\* that is not null; the rows of the input keep their key and value; with
\* no inter-table calculated factoid in the metadata the input is returned
\* unchanged.
C10_CalculatedAmountIsWeightedSum ==
    GenerateReturned =>
        IF InterTableCalcs(metadata_exploded) = {}
        THEN calculated_df = exploded
        ELSE /\ \A m \in InterTableCalcs(metadata_exploded) :
                    \A r \in calculated_df.rows :
                        (r.table_name = m.table_name
                            /\ r.xbrl_factoid = m.xbrl_factoid)
                        => r.calculated_amount
                               = ExpectedAmount(m, r.report_year)
             /\ \A r \in exploded.rows :
                    \E q \in calculated_df.rows :
                        SamePk(q, r) /\ q.value = r.value

\* The total of one year is x - y = 97 + 3, and the total of the other year
\* has no component with a value.
C10_Witness ==
    /\ GenerateReturned
    /\ \E r \in calculated_df.rows :
          /\ r.xbrl_factoid = TOTAL
          /\ r.calculated_amount = Some(100)
          /\ \E p \in exploded.rows :
                /\ p.xbrl_factoid = Y
                /\ p.report_year = r.report_year
    /\ \E r \in calculated_df.rows :
          /\ r.xbrl_factoid = TOTAL
          /\ r.value # Null
          /\ r.calculated_amount = Null
          /\ \E p \in exploded.rows :
                /\ p.xbrl_factoid = X
                /\ p.report_year = r.report_year

\* With no inter-table calculation in the metadata, the data comes back as
\* it went in.
C10_WitnessUnchanged ==
    /\ stage = "generated"
    /\ InterTableCalcs(metadata_exploded) = {}
    /\ Cardinality(exploded.rows) >= 3
    /\ calculated_df = exploded

----------------------------------------------------------------------------
(* Claims about leafy_data and about boom                                   *)

LeafyDataReturned == out.prop = "leafy_data" /\ out.status = "ok"

\* The rows of the data leafy_data was given that the output row o was
\* merged with.
InputRowsOf(o) ==
    { d \in out.data : /\ d.table_name = o.leaf.source_table
                       /\ d.xbrl_factoid = o.leaf.xbrl_factoid
                       /\ Some(d.report_year) = o.report_year }

\* C11: in the dataframe leafy_data returns, every row matched to a leaf has
\* the starting_balance of its input row times the leaf's propagated weight
\* and the ending_balance of its input row times the same weight, and every
\* row is the row of a leaf of leafy_meta.
C11_BalancesTimesLeafWeight ==
    LeafyDataReturned =>
        \A o \in out.rows :
            /\ \E m \in out.meta : m.leaf = o.leaf /\ m.weight = o.weight
            /\ \A d \in InputRowsOf(o) :
                  /\ o.starting_balance = Times(d.starting_balance, o.weight)
                  /\ o.ending_balance = Times(d.ending_balance, o.weight)

\* The stages of boom, in the order of its pipe.
StageOrder ==
    <<"tables", "concatenated", "generated", "reconciled", "returned">>

\* C12: boom runs its stages in the order concatenate, generate inter-table
\* calculations, reconcile, leafy_data; a stage that raises ends the run:
\* nothing runs after it (no leafy_data, no retry) and no dataframe is
\* returned, in particular when reconciliation raises over the tolerance.
C12_StagesInOrderFailureTerminal ==
    /\ [][ stage' # stage =>
             \/ \E i \in 1..4 : /\ stage = StageOrder[i]
                                /\ stage' = StageOrder[i + 1]
                                /\ raised' = "none"
             \/ /\ stage \in {"concatenated", "generated", "reconciled"}
                /\ stage' = "failed"
                /\ raised' # "none" ]_vars
    /\ [][ stage # "failed" /\ stage # "returned" ]_vars
    /\ [](raised # "none" => (stage = "failed" /\ returned = NoFrame))
    /\ [](returned # NoFrame => stage = "returned")

\* Reconciliation has raised over the tolerance: boom has ended without a
\* dataframe.
C12_Witness ==
    /\ stage = "failed"
    /\ raised = "AssertionError"
    /\ calculated_df.has_calculated_amount
    /\ OffRows # {}
    /\ returned = NoFrame

----------------------------------------------------------------------------
(* Claims about StringCategories                                           *)

\* C13: in a validated StringCategories every category is one of its own
\* strings and the mapping sends the name of every category to itself, so
\* categorizing a column twice gives what categorizing it once gives.
C13_CategoriesMapToThemselves ==
    cat_phase = "valid" =>
        /\ \A i \in 1..Len(instance) :
              /\ instance[i].cat \in instance[i].strings
              /\ Mapping(instance)[instance[i].cat] = instance[i].cat
        /\ n_applied = 2 => col = CategorizeStrings(col_input, instance)

\* C14: in a constructed StringCategories, after all validators have run, no
\* string belongs to two categories.
C14_CategoriesAreDisjoint ==
    cat_phase = "valid" =>
        \A i, j \in 1..Len(instance) :
            i # j => instance[i].strings \cap instance[j].strings = {}

----------------------------------------------------------------------------
(* Claims about LayeredCache                                               *)

\* C15: LayeredCache.add stores the resource in exactly one layer, the first
\* one that is not read-only, and leaves every other layer as it was; when
\* the layered cache is read-only or has no layers, add and delete change
\* nothing and contains answers as before.
C15_AddGoesToFirstWritableLayerOnly ==
    /\ ( /\ lc_last.op = "add"
         /\ ~lc_read_only
         /\ \E i \in 1..Len(lc_last.before) : ~lc_last.before[i].read_only )
       => \E i \in 1..Len(lc_last.before) :
            /\ ~lc_last.before[i].read_only
            /\ \A j \in 1..(i - 1) : lc_last.before[j].read_only
            /\ Len(layers) = Len(lc_last.before)
            /\ layers[i].store[lc_last.res] = lc_last.val
            /\ \A j \in 1..Len(layers) :
                  /\ layers[j].read_only = lc_last.before[j].read_only
                  /\ \A r \in Resources :
                        (j # i \/ r # lc_last.res)
                            => layers[j].store[r] = lc_last.before[j].store[r]
    /\ ( /\ lc_last.op \in {"add", "delete"}
         /\ (lc_read_only \/ Len(lc_last.before) = 0) )
       => /\ layers = lc_last.before
          /\ \A r \in Resources :
                LcContains(layers, r) <=> LcContains(lc_last.before, r)

\* add has skipped a read-only first layer and has stored new content in the
\* second layer.
C15_Witness ==
    /\ lc_last.op = "add"
    /\ ~lc_read_only
    /\ Len(lc_last.before) = 2
    /\ lc_last.before[1].read_only
    /\ ~lc_last.before[2].read_only
    /\ lc_last.before[2].store[lc_last.res] # lc_last.val
    /\ layers[2].store[lc_last.res] = lc_last.val
    /\ layers[1] = lc_last.before[1]

\* C16: LayeredCache.get returns the content of the leftmost layer that
\* contains the resource; delete removes the resource from the first layer
\* that is not read-only and from no other layer, so a copy in another layer
\* stays visible.
C16_GetReadsLeftmostDeleteFirstWritable ==
    /\ ( /\ lc_last.op = "get"
         /\ LcContains(lc_last.before, lc_last.res) )
       => \E i \in 1..Len(lc_last.before) :
            /\ LayerContains(lc_last.before[i], lc_last.res)
            /\ \A j \in 1..(i - 1) :
                  ~LayerContains(lc_last.before[j], lc_last.res)
            /\ lc_last.result = lc_last.before[i].store[lc_last.res]
    /\ ( /\ lc_last.op = "delete"
         /\ ~lc_read_only
         /\ \E i \in 1..Len(lc_last.before) : ~lc_last.before[i].read_only )
       => \E i \in 1..Len(lc_last.before) :
            /\ ~lc_last.before[i].read_only
            /\ \A j \in 1..(i - 1) : lc_last.before[j].read_only
            /\ Len(layers) = Len(lc_last.before)
            /\ ~LayerContains(layers[i], lc_last.res)
            /\ \A j \in 1..Len(layers) :
                  /\ layers[j].read_only = lc_last.before[j].read_only
                  /\ \A r \in Resources :
                        (j # i \/ r # lc_last.res)
                            => layers[j].store[r] = lc_last.before[j].store[r]
                  /\ (j # i /\ LayerContains(lc_last.before[j], lc_last.res))
                        => LcContains(layers, lc_last.res)

\* get has read a resource that two layers hold with different contents.
C16_Witness ==
    /\ lc_last.op = "get"
    /\ Len(lc_last.before) = 2
    /\ LayerContains(lc_last.before[1], lc_last.res)
    /\ LayerContains(lc_last.before[2], lc_last.res)
    /\ lc_last.before[1].store[lc_last.res]
          # lc_last.before[2].store[lc_last.res]
    /\ lc_last.result = lc_last.before[1].store[lc_last.res]

----------------------------------------------------------------------------
(* Claims about the forest check, the passthroughs and the weights         *)

\* C17: whenever the graph `forest` returns has a node with more than one
\* parent or has a cycle, the check at the end of `forest` has logged an
\* error.
C17_NonForestIsLogged ==
    ForestReturned =>
        (~IsProperForest(out.graph) => "error" \in out.log)

PassthroughsReturned == out.prop = "passthroughs" /\ out.status = "ok"

\* C18, as stated: `passthroughs` returns exactly the nodes of the seeded
\* digraph with one parent and two children of which one is the correction
\* record of the other child (the table of that child, that child's factoid
\* + "_correction").
C18_CorrectionOfTheOtherChild ==
    PassthroughsReturned =>
        out.passthroughs =
            { n \in TheSeeded.graph.nodes :
                /\ InDegree(TheSeeded.graph, n) = 1
                /\ OutDegree(TheSeeded.graph, n) = 2
                /\ \E c, d \in Successors(TheSeeded.graph, n) :
                      /\ c # d
                      /\ d.source_table = c.source_table
                      /\ d.xbrl_factoid = Append(c.xbrl_factoid, CORR) }

\* C18, amended: `passthroughs` returns exactly the nodes of the seeded
\* digraph with one parent and two children of which one is the correction
\* record of the node itself (the node's table, the node's factoid +
\* "_correction"); B with the single parent A and the children C and
\* B_correction is a passthrough, B with the children C and C_correction is
\* not.
C18_CorrectionOfTheNodeItself ==
    PassthroughsReturned =>
        /\ out.passthroughs =
              { n \in TheSeeded.graph.nodes :
                  /\ InDegree(TheSeeded.graph, n) = 1
                  /\ OutDegree(TheSeeded.graph, n) = 2
                  /\ NodeId(n.source_table, Append(n.xbrl_factoid, CORR))
                        \in Successors(TheSeeded.graph, n) }
        /\ TheSeeded.graph.edges = { <<A, B>>, <<B, C>>, <<B, Bc>> }
              => out.passthroughs = {B}
        /\ TheSeeded.graph.edges = { <<A, B>>, <<B, C>>, <<B, Cc>> }
              => out.passthroughs = {}

\* `passthroughs` has been read on A -> B, B -> C, B -> B_correction and has
\* returned B.
C18_Witness ==
    /\ PassthroughsReturned
    /\ TheSeeded.graph.edges = { <<A, B>>, <<B, C>>, <<B, Bc>> }
    /\ out.passthroughs = {B}

FullDigraphRead == phase = "ready" /\ out.prop = "full_digraph"

\* C19: when two calculations reference the same component with weights that
\* are the negatives of each other, `full_digraph` is constructed and the
\* weight stored on that component is -1, whichever weight came first.
C19_NegatedWeightsStoreMinusOne ==
    FullDigraphRead =>
        \A c, d \in calcs :
            (c.to = d.to /\ c.weight # 0 /\ c.weight = -d.weight)
                => /\ out.status = "ok"
                   /\ out.graph.weight[c.to] = -1

\* C20, as stated: the construction of `full_digraph` raises exactly when
\* some component is referenced with two different weights that are not the
\* negatives of each other.
C20_RaisesIffNotNegatives ==
    FullDigraphRead =>
        (out.status = "raised"
            <=> \E c, d \in calcs :
                    /\ c.to = d.to
                    /\ c.weight # d.weight
                    /\ c.weight # -d.weight)

\* C20, amended: the construction of `full_digraph` raises exactly when some
\* component is referenced with two different weights (neither of them 0)
\* whose product is not -1: 1 and -1 are accepted in either order, 2 and -2
\* are not.
C20_RaisesIffProductNotMinusOne ==
    FullDigraphRead =>
        (out.status = "raised"
            <=> \E c, d \in calcs :
                    /\ c.to = d.to
                    /\ c.weight # d.weight
                    /\ c.weight * d.weight # -1)

\* The construction has raised on a component referenced with 2 and with -2.
C20_Witness ==
    /\ FullDigraphRead
    /\ out.status = "raised"
    /\ \E c, d \in calcs :
          c.to = d.to /\ c.weight = 2 /\ d.weight = -2
    /\ ~\E c, d \in calcs :
          c.to = d.to /\ c.weight # d.weight /\ c.weight # -d.weight

----------------------------------------------------------------------------
(* Further claims about the explosion of data                              *)

\* C24: no calculated row whose primary key matches no row of the exploded
\* data reaches the dataframe generate_intertable_calculations returns (the
\* assertion after the outer join fails on such a row).
C24_NoUnmatchedCalculatedRowReturned ==
    (GenerateReturned /\ calculated_df.has_calculated_amount) =>
        \A r \in calculated_df.rows :
            r.calculated_amount # Null =>
                \E q \in exploded.rows : SamePk(q, r)

\* C30: given a dataframe with the calculated_amount column in which no row
\* has both a reported value and a calculated amount,
\* reconcile_intertable_calculations raises nothing, adds no correction and
\* returns the rows it was given.
C30_NoDifferenceNoFailure ==
    (ReconcileRan /\ WithDifference = {}) =>
        /\ stage = "reconciled"
        /\ raised = "none"
        /\ \A q \in reconciled.rows : q.row_type_xbrl # "correction"
        /\ Cardinality(reconciled.rows) = Cardinality(calculated_df.rows)

----------------------------------------------------------------------------
(* Further claims about the calculation forest                             *)

\* C28: when the seeded digraph is a forest, for every leaf that leafy_meta
\* reports and that is a leaf of the seeded digraph too, the weight reported
\* is the product of the weights on the leaf's path to its root in the seeded
\* digraph (the passthrough nodes on that path included), and the root
\* reported is the root of that path.
C28_PruningPreservesLeafWeightAndRoot ==
    (LeafyReturned /\ IsProperForest(TheSeeded.graph)) =>
        \A row \in out.rows :
            (/\ row.leaf \in TheSeeded.graph.nodes
             /\ OutDegree(TheSeeded.graph, row.leaf) = 0)
            => /\ row.weight = PathWeight(TheSeeded.graph, row.leaf)
               /\ InDegree(TheSeeded.graph, row.root) = 0
               /\ row.leaf \in Closure(TheSeeded.graph.edges, {row.root})

\* leafy_meta has been read on a seeded forest A -> B -> C in which B is a
\* passthrough with weight -1, and reports C under the root A.
C28_Witness ==
    /\ LeafyReturned
    /\ IsProperForest(TheSeeded.graph)
    /\ B \in Passthroughs(TheSeeded.graph)
    /\ TheSeeded.graph.weight[B] = -1
    /\ \E row \in out.rows :
          /\ row.leaf = C
          /\ row.root = A
          /\ row.weight = -1 * TheSeeded.graph.weight[C]

\* The edges the calculations of the metadata describe.
MetaEdges == { <<c.from, c.to>> : c \in calcs }

\* The calculations of the metadata contain a directed cycle.
MetaHasCycle ==
    \E n \in { e[1] : e \in MetaEdges } :
        n \in Closure(MetaEdges, { e[2] : e \in { d \in MetaEdges : d[1] = n } })

\* No component is referenced with two weights whose product is not -1.
NoWeightConflict ==
    \A c, d \in calcs :
        (c.to = d.to /\ c.weight # d.weight) => c.weight * d.weight = -1

\* Every row of the metadata is an end point of a calculation, every end
\* point has a row, and every row is a seed.
AllRowsSeededAndCalculated ==
    /\ index = { e[1] : e \in MetaEdges } \cup { e[2] : e \in MetaEdges }
    /\ seeds = index

\* C25: when the calculations of the metadata contain a directed cycle,
\* `full_digraph` logs a critical message and returns the graph with the
\* cycle; `seeded_digraph` then returns a graph built from it, and `forest`
\* (here with no passthrough to prune) returns that graph, with its cycle.
C25_CycleIsLoggedNotRaised ==
    (phase = "ready" /\ MetaHasCycle /\ NoWeightConflict) =>
        /\ out.prop = "full_digraph"
              => /\ out.status = "ok"
                 /\ "critical" \in out.log
                 /\ out.graph.edges = MetaEdges
        /\ (out.prop = "seeded_digraph" /\ AllRowsSeededAndCalculated)
              => /\ out.status = "ok"
                 /\ out.graph.edges = MetaEdges
        /\ (/\ out.prop = "forest"
            /\ AllRowsSeededAndCalculated
            /\ Passthroughs(TheSeeded.graph) = {})
              => /\ out.status = "ok"
                 /\ out.graph.edges = MetaEdges

\* `forest` has returned a graph with the cycle A -> B -> C -> A.
C25_Witness ==
    /\ ForestReturned
    /\ MetaHasCycle
    /\ out.graph.edges = { <<A, B>>, <<B, C>>, <<C, A>> }

\* C21, as stated: exploded_meta_to_digraph adds, for every row and every
\* component of its calculation, an edge from the row's node to (source
\* table, component name) for each table the component lists, and a
\* component that lists several tables does not make the construction fail.
C21_OneEdgePerSourceTable ==
    (FullDigraphRead /\ NoWeightConflict) =>
        /\ out.status = "ok"
        /\ MetaEdges \subseteq out.graph.edges
        /\ \A m \in multi_calcs :
              \A t \in m.source_tables :
                  <<m.from, NodeId(t, m.name)>> \in out.graph.edges

\* C21, amended: exploded_meta_to_digraph adds, for every row and every
\* component of its calculation that lists one source table, an edge from
\* the row's node to (that table, component name), and these are all the
\* edges; a component that lists several source tables makes the
\* construction fail.
C21_OneSourceTableOrFailure ==
    (FullDigraphRead /\ NoWeightConflict) =>
        /\ out.status = "raised" <=> multi_calcs # {}
        /\ out.status = "ok" => out.graph.edges = MetaEdges

\* `full_digraph` has raised on a component that lists two source tables,
\* next to a component that lists one.
C21_Witness ==
    /\ FullDigraphRead
    /\ NoWeightConflict
    /\ calcs # {}
    /\ \E m \in multi_calcs : Cardinality(m.source_tables) = 2
    /\ out.status = "raised"

\* C26: for every leaf, the tags leafy_meta reports are the union of the
\* tags of the leaf's ancestors in the forest: the keys of all of them, each
\* with the value of an ancestor that has the key, all taken from the ancestor
\* visited last among those that have tags; conflicting values raise nothing,
\* and the tags of the leaf itself are not part of the union.
C26_LeafTagsAreUnionOverAncestors ==
    LeafyReturned =>
        \A row \in out.rows :
            LET tagged == Ancestors(out.graph, row.leaf) \cap DOMAIN tags
            IN  /\ DOMAIN row.tags = UNION { DOMAIN tags[n] : n \in tagged }
                /\ tagged # {} =>
                      \E last \in tagged :
                          \A k \in DOMAIN tags[last] :
                              row.tags[k] = tags[last][k]

\* leafy_meta has returned a leaf whose two ancestors carry conflicting tags
\* and which is tagged itself: the leaf has the tag of its root.
C26_Witness ==
    /\ LeafyReturned
    /\ \E row \in out.rows :
          /\ row.leaf = C
          /\ Ancestors(out.graph, C) = {A, B}
          /\ {A, B, C} \subseteq DOMAIN tags
          /\ tags[A].rate_base = "yes"
          /\ tags[B].rate_base = "no"
          /\ tags[C].rate_base = "no"
          /\ row.tags.rate_base = "yes"

\* C27, as stated: within one instance the body of each of full_digraph,
\* seeded_digraph, forest and leafy_meta runs at most once, whatever is read
\* and in whatever order.
C27_ComputedAtMostOnce ==
    \A p \in PropertyNames : computed[p] <= 1

\* C27, amended: no property keeps its result; the body of full_digraph,
\* seeded_digraph, forest and leafy_meta has run at least as often as the
\* property has been read (counted up to MaxCount), and a property that reads
\* another one runs the body of that one as well.
C27_EveryAccessRunsTheBody ==
    /\ \A p \in PropertyNames : computed[p] >= accessed[p]
    /\ computed.forest >= computed.leafy_meta
    /\ computed.seeded_digraph >= computed.forest
    /\ seeds # {} => computed.full_digraph >= computed.seeded_digraph

\* full_digraph has been read twice, and nothing else: its body has run
\* twice.
C27_Witness ==
    /\ accessed = Runs(2, 0, 0, 0)
    /\ computed = Runs(2, 0, 0, 0)

-----------------------------------------------------------------------------
\* Claims about MetadataExploder.

Boomed == boomed.status = "ok"

\* The row boom returned for the metadata row m.
BoomedRow(m) ==
    CHOOSE r \in boomed.rows :
        r.table_name = m.table_name /\ r.xbrl_factoid = m.xbrl_factoid

IsDemoted(m) ==
    /\ BoomedRow(m).calculations = {}
    /\ BoomedRow(m).row_type_xbrl = "reported_value"

IsKept(m) == BoomedRow(m) = m

AllInside(c) == c.source_tables \subseteq ExplosionTables

AllOutside(c) == c.source_tables \cap ExplosionTables = {}

Mixed(c) == ~AllInside(c) /\ ~AllOutside(c)

\* C22, as stated: a component with one source table inside and one outside
\* the explosion counts as outside: the row that carries it is demoted and
\* its name is recorded.
C22_MixedComponentIsOutside ==
    Boomed =>
        \A m \in meta_explode : \A c \in m.calculations :
            Mixed(c) =>
                /\ IsDemoted(m)
                /\ c.name \in boomed.inter_table_components_in_intra_table_calc

\* C22, amended: a component is in the explosion as soon as one of its source
\* tables is one of the explosion's tables; a row all of whose components
\* have such a table is returned as it was unless another row of the same
\* xbrl_factoid has a component with no table in the explosion, and the
\* recorded names are those of the components with no table in the explosion.
C22_AnySourceTableInsideIsInside ==
    Boomed =>
        /\ \A m \in meta_explode :
              (\A n \in meta_explode : n.xbrl_factoid = m.xbrl_factoid =>
                  \A c \in n.calculations : ~AllOutside(c))
              => IsKept(m)
        /\ boomed.inter_table_components_in_intra_table_calc =
              { c.name : c \in { d \in UNION { m.calculations :
                                                 m \in meta_explode } :
                                   AllOutside(d) } }

\* A row whose only component has one table inside and one outside the
\* explosion went through boom and kept its calculation.
C22_Witness ==
    /\ Boomed
    /\ \E m \in meta_explode :
          /\ m.calculations = { CalcComponent("c", {"t1", "t9"}) }
          /\ IsKept(m)
          /\ "c" \notin boomed.inter_table_components_in_intra_table_calc

\* C23: after boom, every row with a component none of whose source tables
\* is in the explosion has the empty calculations and the row type
\* "reported_value", and the name of every such component is recorded in
\* inter_table_components_in_intra_table_calc.
C23_OutsideComponentDemotesAndIsRecorded ==
    Boomed =>
        \A m \in meta_explode : \A c \in m.calculations :
            AllOutside(c) =>
                /\ IsDemoted(m)
                /\ c.name \in boomed.inter_table_components_in_intra_table_calc

\* A row with one component inside and one outside the explosion was demoted
\* and the name of the outside component recorded.
C23_Witness ==
    /\ Boomed
    /\ \E m \in meta_explode :
          /\ m.calculations =
                { CalcComponent("b", {"t1"}), CalcComponent("c", {"t9"}) }
          /\ IsDemoted(m)
    /\ boomed.inter_table_components_in_intra_table_calc = {"c"}

\* C29: a row all of whose components lie inside the explosion keeps its
\* calculations and its row type, whatever happens to the rows of other
\* tables with the same xbrl_factoid.
C29_DemotionConfinedToTableAndFactoid ==
    Boomed =>
        \A m \in meta_explode :
            (\A c \in m.calculations : AllInside(c)) => IsKept(m)

====
